---------------------------- MODULE Spec2Model ----------------------------
(***************************************************************************)
(* Banner design assistants: the bbear session (src/bbear/app.py with      *)
(* src/bbear/bannerbear_service.py and src/bbear/freeimage_service.py) and *)
(* the roa_chat session (src/roa_chat.py).  Each is a Streamlit script     *)
(* whose st.session_state is the state below.  In a session (Spec) one     *)
(* action is one handler of one script run, a render's blocking poll loop  *)
(* included; the poll loops called directly (SpecPoll) take one step per   *)
(* loop iteration, and the Modification Set operations applied directly    *)
(* (SpecMods) one step per call.                                           *)
(***************************************************************************)
EXTENDS Integers, Sequences, FiniteSets, TLC

VARIABLES
    app,                          \* which of the two programs this process runs
    staging_log,                  \* the modifications staged so far, when staged directly
    client_return,                \* what the latest direct call of a fetch or of generate_image returned
    \* ---- bbear: st.session_state of src/bbear/app.py ----
    google_api_key_ok,
    freeimage_api_key_ok,
    bannerbear_api_key,
    templates_cache,              \* st.cache_data entry of fetch_all_templates_cached
    templates_list_details,
    selected_template_uid,
    selected_template_details,
    current_modifications,
    action_select_template_uid,
    final_generated_image_url,
    final_generated_image_bytes,
    image_upload_for_layer,
    last_poll_status,
    assistant_response_content,   \* the assistant message last appended to chat_history
    calls,                        \* service functions entered by the current / latest handler
    render_request,               \* payload of the render request that handler posted
    bbPoll,                       \* frame of bannerbear_service.poll_image_completion
    \* ---- roa_chat: st.session_state of src/roa_chat.py ----
    design_context,
    roa_response_text,            \* content of the last entry of messages
    uploaded_file,                \* the file uploader widget holds a file
    staged_file_bytes,
    file_was_processed,
    file_sent,                    \* the file the uploader holds has been uploaded with a prompt
    processing_prompt,
    roaPoll                       \* frame of roa_chat.poll_for_image_completion

bbSessionVars == <<google_api_key_ok, freeimage_api_key_ok, bannerbear_api_key,
                   templates_cache, templates_list_details, selected_template_uid,
                   selected_template_details, current_modifications,
                   action_select_template_uid, final_generated_image_url,
                   final_generated_image_bytes, image_upload_for_layer>>
bbVars == <<bbSessionVars, last_poll_status, assistant_response_content, bbPoll>>
roaFileVars == <<uploaded_file, staged_file_bytes, file_was_processed, file_sent>>
roaVars == <<design_context, roa_response_text, roaFileVars, processing_prompt, roaPoll>>
runVars == <<app, staging_log, client_return>>
callVars == <<calls, render_request>>
vars == <<runVars, bbVars, callVars, roaVars>>

-----------------------------------------------------------------------------
(* Values *)

None == "None"                    \* Python None / a key absent from a dict
NoList == <<>>                    \* None or [] where a list is expected: both falsy
USER_UPLOAD_PENDING == "USER_UPLOAD_PENDING"
URL_X == "https://img/x.png"
URL_OUT == "https://cdn/out.png"
API_KEY == "key"
OTHER_KEY == "key_2"              \* the credential of another Bannerbear account

\* new_val.startswith('http')
StartsWithHttp(v) == v \in {URL_X, URL_OUT}

\* raw layer descriptors of the remote templates: a name and the keys present
Layer(n, ks) == [name |-> n, keys |-> ks]

TemplateCatalog == <<"tpl_1", "tpl_2">>

TemplateUids == {TemplateCatalog[i] : i \in 1..Len(TemplateCatalog)}

\* GET /templates answers with the templates of the account of the credential
OtherCatalog == <<"tpl_3">>

CatalogOf(api_key) == IF api_key = API_KEY THEN TemplateCatalog ELSE OtherCatalog

RemoteTemplateDetails(uid) ==
    IF uid = "tpl_1"
    THEN [uid |-> uid,
          available_modifications |->
              <<Layer("title", {"text"}), Layer("photo", {"image_url"})>>]
    ELSE [uid |-> uid,
          available_modifications |->
              <<Layer("title", {"text", "color"}), Layer("accent", {"color"})>>]

\* a Bannerbear modification dict: name plus optional payload keys
Mod(n, t, i, c) == [name |-> n, text |-> t, image_url |-> i, color |-> c]

\* bb_mod = {}: the empty, falsy dict
NoMod == Mod(None, None, None, None)

\* a faulty payload: the latest modification alone is sent
RenderRequestLatestOnly(uid, mods) ==
    [template |-> uid,
     modifications |-> IF mods = <<>> THEN <<>> ELSE <<mods[Len(mods)]>>]

\* payload = {"template": template_uid, "modifications": modifications}
RenderRequest(uid, mods) == [template |-> uid, modifications |-> mods]

\* no render request posted
NoRequest == RenderRequest(None, <<>>)

\* the Modification Set with a title staged, and with a photo staged after it
TitleStaged == <<Mod("title", "Sale", None, None)>>

TitleAndPhotoStaged == <<Mod("title", "Sale", None, None), Mod("photo", None, URL_X, None)>>

\* the outcome of a call of a render-client function: the (data, error) pair it
\* returned, or an exception it let through, and the HTTP requests it issued
Returned(op, has_data, error, requests) ==
    [op |-> op, data |-> has_data, error |-> error, raised |-> FALSE,
     requests |-> requests]

NoReturn == Returned(None, FALSE, None, 0)

\* design_context as initialize_session_state and RESET set it
EmptyDesignContext == [template_uid |-> None, modifications |-> <<>>]

\* None where template details are expected
NoDetails == [uid |-> None, available_modifications |-> <<>>]

\* last_poll_status: None, "pending_attempt_<n>" or "unexpected_status_<status>"
PollStatus(k, n, st) == [kind |-> k, attempt |-> n, status |-> st]

NoPollStatus == PollStatus(None, 0, None)

\* kind of a layer, from the key present: text, then image_url, then color
LayerType(layer) ==
    IF "text" \in layer.keys THEN "Text"
    ELSE IF "image_url" \in layer.keys THEN "Image"
    ELSE IF "color" \in layer.keys THEN "Color"
    ELSE "Unknown"

\* available_mods_for_llm: name and type of every named layer
AvailableModsForLlm(details) ==
    LET am == details.available_modifications
        F[i \in 0..Len(am)] ==
            IF i = 0 THEN <<>>
            ELSE IF am[i].name # None
                 THEN Append(F[i-1], [name |-> am[i].name, type |-> LayerType(am[i])])
                 ELSE F[i-1]
    IN F[Len(am)]

ActualLayerNames(details) ==
    LET l == AvailableModsForLlm(details) IN {l[i].name : i \in 1..Len(l)}

-----------------------------------------------------------------------------
(* Modification Set *)

\* index of the first entry named n, 0 when there is none
FirstIndexOf(mods, n) ==
    IF \E i \in 1..Len(mods) : mods[i].name = n
    THEN CHOOSE i \in 1..Len(mods) :
            /\ mods[i].name = n
            /\ \A j \in 1..(i-1) : mods[j].name # n
    ELSE 0

\* a faulty upsert: always appends
UpsertModificationAppends(mods, mod) == Append(mods, mod)

\* a faulty upsert: moves a replaced entry to the end
UpsertModificationMoves(mods, mod) ==
    Append(SelectSeq(mods, LAMBDA m : m.name # mod.name), mod)

\* the found / replace / append loop of app.py
UpsertModification(mods, mod) ==
    LET i == FirstIndexOf(mods, mod.name)
    IN IF i # 0 THEN [mods EXCEPT ![i] = mod] ELSE Append(mods, mod)

\* current_mods[new_mod['name']] = dict(new_mod) on an insertion-ordered dict,
\* the dict held as the sequence of its values
DictSetItem(d, mod) ==
    LET i == FirstIndexOf(d, mod.name)
    IN IF i # 0 THEN [d EXCEPT ![i] = mod] ELSE Append(d, mod)

\* {mod['name']: mod for mod in modifications}
RECURSIVE DictOfMods(_)
DictOfMods(mods) ==
    IF mods = <<>> THEN <<>>
    ELSE DictSetItem(DictOfMods(SubSeq(mods, 1, Len(mods) - 1)), mods[Len(mods)])

\* a faulty merge: the new modifications are added to the list as they come
MergeModificationsConcatenates(mods, new_mods) == mods \o new_mods

\* a faulty merge: the modifications of the decision take the place of the list
MergeModificationsOverwrites(mods, new_mods) == new_mods

\* the MODIFY merge of handle_ai_decision
RECURSIVE MergeInto(_, _)
MergeInto(d, new_mods) ==
    IF new_mods = <<>> THEN d
    ELSE DictSetItem(MergeInto(d, SubSeq(new_mods, 1, Len(new_mods) - 1)),
                     new_mods[Len(new_mods)])

MergeModifications(mods, new_mods) == MergeInto(DictOfMods(mods), new_mods)

NoDuplicateNames(mods) ==
    \A i, j \in 1..Len(mods) : mods[i].name = mods[j].name => i = j


-----------------------------------------------------------------------------
(* Completion pollers *)

MaxRetriesBound == 4              \* largest max_retries argument tried directly
DelayChoices == {1, 3}            \* delay_seconds arguments tried directly
DEFAULT_MAX_RETRIES == 20
DEFAULT_DELAY_SECONDS == 3
ROA_POLL_ATTEMPTS == 30
ROA_POLL_DELAY == 1
MaxQueries == 32                  \* status queries of one poll that are followed

\* what one status query (requests.get + raise_for_status + json) can produce
Json(s, u) == [kind |-> "json", status |-> s, image_url_png |-> u]
Raised(e) == [kind |-> e, status |-> None, image_url_png |-> None]

PollAnswers ==
    { Json("completed", URL_OUT), Json("completed", None), Json("failed", None),
      Json("pending", None), Json("queued", None),
      Raised("HTTPError"), Raised("ConnectionError") }

NoData == Raised(None)

IsPending(ans) == ans.kind = "json" /\ ans.status = "pending"
\* a JSON answer whose status is neither completed nor failed (pending or unrecognized)
IsNonTerminal(ans) == ans.kind = "json" /\ ans.status \notin {"completed", "failed"}

\* frame of poll_image_completion: its arguments, loop variable and return value,
\* with the requests issued, the seconds slept and the answers received so far
IdleBbPoll ==
    [pc |-> "idle", max_retries |-> 0, delay_seconds |-> 0, attempt |-> 0,
     url |-> None, error |-> None, reported_seconds |-> 0,
     queries |-> 0, slept |-> 0, observed |-> 0,
     data |-> NoData, answers |-> 0, nonterminal_answers |-> 0,
     only_pending |-> TRUE, pending_before |-> TRUE]

\* poll_image_completion up to its loop: the header check and the arguments
PollImageCompletionEnter(api_key, max_retries, delay_seconds) ==
    IF api_key = None
    THEN [IdleBbPoll EXCEPT !.pc = "returned", !.error = "no_api_key",
                            !.max_retries = max_retries, !.delay_seconds = delay_seconds]
    ELSE [IdleBbPoll EXCEPT !.pc = "polling",
                            !.max_retries = max_retries, !.delay_seconds = delay_seconds]

\* a faulty loop body: a transport error is retried within the loop
PollIterationRetriesErrors(f, ans) ==
    LET q == [f EXCEPT !.queries = @ + 1, !.data = ans]
    IN IF ans.kind # "json"
       THEN [q EXCEPT !.slept = @ + f.delay_seconds, !.attempt = @ + 1]
       ELSE IF ans.status = "completed"
       THEN [q EXCEPT !.pc = "returned", !.url = ans.image_url_png]
       ELSE IF ans.status = "failed"
       THEN [q EXCEPT !.pc = "returned", !.error = "failed"]
       ELSE [q EXCEPT !.observed = @ + 1, !.slept = @ + f.delay_seconds,
                      !.attempt = @ + 1]

\* a faulty loop body: a completed answer is only noticed on the next pass
PollIterationLateSuccess(f, ans) ==
    LET q == [f EXCEPT !.queries = @ + 1, !.data = ans]
    IN IF ans.kind # "json"
       THEN [q EXCEPT !.pc = "returned", !.error = "connection_error"]
       ELSE IF ans.status = "completed" /\ f.data.status = "completed"
       THEN [q EXCEPT !.pc = "returned", !.url = ans.image_url_png]
       ELSE IF ans.status = "failed"
       THEN [q EXCEPT !.pc = "returned", !.error = "failed"]
       ELSE [q EXCEPT !.observed = @ + 1, !.slept = @ + f.delay_seconds,
                      !.attempt = @ + 1]

\* one pass of the for loop of poll_image_completion on the answer ans
PollImageCompletionIteration(f, ans) ==
    LET q == [f EXCEPT !.queries = @ + 1, !.data = ans]
    IN IF ans.kind = "HTTPError"
       THEN [q EXCEPT !.pc = "returned", !.error = "http_error"]
       ELSE IF ans.kind # "json"
       THEN [q EXCEPT !.pc = "returned", !.error = "connection_error"]
       ELSE IF ans.status = "completed"
       THEN [q EXCEPT !.pc = "returned", !.url = ans.image_url_png]
       ELSE IF ans.status = "failed"
       THEN [q EXCEPT !.pc = "returned", !.error = "failed"]
       ELSE IF ans.status = "pending"
       THEN [q EXCEPT !.observed = @ + 1,
                      !.slept = IF f.attempt < f.max_retries - 1
                                THEN @ + f.delay_seconds ELSE @,
                      !.attempt = @ + 1]
       ELSE [q EXCEPT !.observed = @ + 1,
                      !.slept = @ + f.delay_seconds,
                      !.attempt = @ + 1]

\* st.session_state.last_poll_status after that pass
LastPollStatusAfter(f, ans, old) ==
    IF ans.kind # "json" \/ ans.status \in {"completed", "failed"} THEN old
    ELSE IF ans.status = "pending" THEN PollStatus("pending_attempt", f.attempt + 1, None)
    ELSE PollStatus("unexpected_status", 0, ans.status)

\* a faulty loop end: one pass too many
PollLoopRunsOneMore(f) == f.attempt < f.max_retries + 1

\* a faulty loop end: the loop has no ceiling
PollLoopHasNoCeiling(f) == TRUE

\* range(max_retries) still has an index to run
PollLoopContinues(f) == f.attempt < f.max_retries

\* the return after the loop: timed out
PollImageCompletionExhausted(f) ==
    [f EXCEPT !.pc = "returned", !.error = "timed_out",
              !.reported_seconds = f.max_retries * f.delay_seconds]

\* the answers given so far, as the remote side counts them: how many, how many
\* of them neither completed nor failed, whether all were "pending", and whether
\* all before the latest were
Answered(f, ans) ==
    [f EXCEPT !.answers = @ + 1,
              !.nonterminal_answers = IF IsNonTerminal(ans) THEN @ + 1 ELSE @,
              !.only_pending = @ /\ IsPending(ans),
              !.pending_before = f.only_pending]

\* frame of poll_for_image_completion: loop variable, return value and the return
\* statement taken, with the requests issued, seconds slept and answers received
IdleRoaPoll ==
    [pc |-> "idle", attempt |-> 0, ret |-> NoData, exit |-> None,
     queries |-> 0, slept |-> 0, observed |-> 0,
     data |-> NoData, answers |-> 0, nonterminal_answers |-> 0,
     only_pending |-> TRUE, pending_before |-> TRUE]

\* poll_for_image_completion up to its loop: image_object.get("self")
PollForImageCompletionEnter(polling_url) ==
    IF polling_url = None
    THEN [IdleRoaPoll EXCEPT !.pc = "returned", !.exit = "no_polling_url"]
    ELSE [IdleRoaPoll EXCEPT !.pc = "polling"]

\* a faulty loop body: a failed job is polled again
PollForIterationRetriesFailed(f, ans) ==
    LET q == [f EXCEPT !.slept = @ + ROA_POLL_DELAY, !.queries = @ + 1, !.data = ans]
    IN IF ans.kind # "json"
       THEN [q EXCEPT !.pc = "returned", !.exit = "request_exception"]
       ELSE IF ans.status = "completed"
       THEN [q EXCEPT !.pc = "returned", !.exit = "completed", !.ret = ans]
       ELSE [q EXCEPT !.attempt = @ + 1]

\* one pass of the for loop of poll_for_image_completion: sleep, then query
PollForImageCompletionIteration(f, ans) ==
    LET q == [f EXCEPT !.slept = @ + ROA_POLL_DELAY, !.queries = @ + 1, !.data = ans]
    IN IF ans.kind # "json"
       THEN [q EXCEPT !.pc = "returned", !.exit = "request_exception"]
       ELSE IF ans.status = "completed"
       THEN [q EXCEPT !.pc = "returned", !.exit = "completed", !.ret = ans]
       ELSE IF ans.status = "failed"
       THEN [q EXCEPT !.pc = "returned", !.exit = "failed"]
       ELSE [q EXCEPT !.attempt = @ + 1]

\* range(30) still has an index to run
PollForLoopContinues(f) == f.attempt < ROA_POLL_ATTEMPTS

\* the return after the loop
PollForImageCompletionExhausted(f) == [f EXCEPT !.pc = "returned", !.exit = "exhausted"]

\* the loop of poll_image_completion run to its return, for every sequence of
\* answers: from the frames in S, each paired with the last_poll_status written so
\* far (NoPollStatus: none written), after at most n more steps
RECURSIVE PollImageCompletionRuns(_, _)
PollImageCompletionRuns(S, n) ==
    IF n = 0 THEN S
    ELSE PollImageCompletionRuns(
            {p \in S : p.f.pc = "returned"}
            \cup {[f |-> PollImageCompletionExhausted(p.f), lps |-> p.lps] :
                     p \in {q \in S : q.f.pc = "polling" /\ ~PollLoopContinues(q.f)}}
            \cup UNION {{[f |-> Answered(PollImageCompletionIteration(p.f, ans), ans),
                          lps |-> LastPollStatusAfter(p.f, ans, p.lps)] :
                            ans \in PollAnswers} :
                     p \in {q \in S : q.f.pc = "polling" /\ PollLoopContinues(q.f)}},
            n - 1)

\* a render job of a session leaves its non-terminal states within this many
\* status queries, or never does
MaxPendingAnswers == 2

\* what poll_image_completion(uid) can return with its default arguments, and the
\* last_poll_status it leaves, for those jobs
DefaultPollResults ==
    {[url |-> p.f.url, error |-> p.f.error, last_poll_status |-> p.lps] :
        p \in {q \in PollImageCompletionRuns(
                         {[f |-> PollImageCompletionEnter(API_KEY, DEFAULT_MAX_RETRIES,
                                                          DEFAULT_DELAY_SECONDS),
                           lps |-> NoPollStatus]},
                         DEFAULT_MAX_RETRIES + 1) :
                   q.f.nonterminal_answers <= MaxPendingAnswers
                       \/ q.f.error = "timed_out"}}

\* the same, as far as app.py tells the results apart: final_url, whether there is
\* a poll_error, and the last_poll_status left
DefaultPollOutcomes ==
    {[final_url |-> r.url, poll_error |-> r.error # None,
      last_poll_status |-> r.last_poll_status] : r \in DefaultPollResults}

\* final_url, poll_error = poll_image_completion(uid) as app.py calls it
PollImageCompletion(api_key) ==
    IF api_key = None
    THEN {[final_url |-> None, poll_error |-> TRUE, last_poll_status |-> NoPollStatus]}
    ELSE DefaultPollOutcomes

\* the loop of poll_for_image_completion run to its return, likewise
RECURSIVE PollForImageCompletionRuns(_, _)
PollForImageCompletionRuns(S, n) ==
    IF n = 0 THEN S
    ELSE PollForImageCompletionRuns(
            {f \in S : f.pc = "returned"}
            \cup {PollForImageCompletionExhausted(f) :
                     f \in {g \in S : g.pc = "polling" /\ ~PollForLoopContinues(g)}}
            \cup UNION {{Answered(PollForImageCompletionIteration(f, ans), ans) :
                            ans \in PollAnswers} :
                     f \in {g \in S : g.pc = "polling" /\ PollForLoopContinues(g)}},
            n - 1)

\* what poll_for_image_completion can return for an image object with or without
\* a "self" URL
PollForImageCompletionResults(polling_url) ==
    {f.ret : f \in PollForImageCompletionRuns({PollForImageCompletionEnter(polling_url)},
                                               ROA_POLL_ATTEMPTS + 1)}

-----------------------------------------------------------------------------
(* Initial state: initialize_session_state of either program *)

InitCommon ==
    /\ staging_log = <<>>
    /\ client_return = NoReturn
    /\ templates_cache = <<>>
    /\ templates_list_details = NoList
    /\ selected_template_uid = None
    /\ selected_template_details = NoDetails
    /\ current_modifications = <<>>
    /\ action_select_template_uid = None
    /\ final_generated_image_url = None
    /\ final_generated_image_bytes = None
    /\ image_upload_for_layer = None
    /\ last_poll_status = NoPollStatus
    /\ assistant_response_content = "greeting"
    /\ calls = {}
    /\ render_request = NoRequest
    /\ bbPoll = IdleBbPoll
    /\ design_context = EmptyDesignContext
    /\ roa_response_text = "greeting"
    /\ uploaded_file = FALSE
    /\ staged_file_bytes = None
    /\ file_was_processed = FALSE
    /\ file_sent = FALSE
    /\ processing_prompt = None
    /\ roaPoll = IdleRoaPoll

\* a session that got past the start-up key checks: the Bannerbear key is set
Init ==
    /\ app \in {"bbear", "roa_chat"}
    /\ InitCommon
    /\ bannerbear_api_key = API_KEY
    /\ google_api_key_ok \in (IF app = "bbear" THEN BOOLEAN ELSE {TRUE})
    /\ freeimage_api_key_ok \in (IF app = "bbear" THEN BOOLEAN ELSE {TRUE})

-----------------------------------------------------------------------------
(* bbear: handlers of src/bbear/app.py *)

\* outcomes of the remote calls
FetchErrors == {"http_error", "connection_error"}

\* fetch_all_templates_cached: what one execution returns, as (data, error)
FetchAllTemplatesResults(api_key) ==
    IF api_key = None
    THEN {[data |-> NoList, error |-> "key_not_configured"]}
    ELSE {[data |-> CatalogOf(api_key), error |-> None],
          [data |-> NoList, error |-> "connection_error"]}

\* the handlers below run only between script runs that have nothing pending
BbIdle == app = "bbear" /\ action_select_template_uid = None

bbPollUnchanged == UNCHANGED <<last_poll_status, bbPoll>>

bbKeysUnchanged == UNCHANGED <<google_api_key_ok, freeimage_api_key_ok, bannerbear_api_key>>

\* "show templates" / "list templates"
ShowTemplates ==
    /\ BbIdle
    /\ \E r \in FetchAllTemplatesResults(bannerbear_api_key) :
          LET got == IF templates_cache # <<>> THEN templates_cache[1] ELSE r
          IN /\ templates_cache' = <<got>>
             /\ templates_list_details' =
                    IF got.data # NoList THEN got.data ELSE templates_list_details
             /\ assistant_response_content' =
                    IF got.data # NoList THEN "here_are_templates" ELSE "could_not_fetch"
    /\ calls' = {"fetch_all_templates_cached"}
    /\ render_request' = NoRequest
    /\ bbKeysUnchanged /\ bbPollUnchanged
    /\ UNCHANGED <<selected_template_uid, selected_template_details,
                   current_modifications, action_select_template_uid,
                   final_generated_image_url, final_generated_image_bytes,
                   image_upload_for_layer, runVars, roaVars>>

\* the st.cache_data entry outlives its ttl
TemplatesCacheExpires ==
    /\ BbIdle
    /\ templates_cache # <<>>
    /\ templates_cache' = <<>>
    /\ bbKeysUnchanged /\ bbPollUnchanged
    /\ UNCHANGED <<templates_list_details, selected_template_uid,
                   selected_template_details, current_modifications,
                   action_select_template_uid, final_generated_image_url,
                   final_generated_image_bytes, image_upload_for_layer,
                   assistant_response_content, callVars, runVars, roaVars>>

\* what follows "select template ": digits (a 1-based index) or a uid / name
Identifiers ==
    {[isdigit |-> TRUE, n |-> n, text |-> ""] : n \in 1..3}
        \cup {[isdigit |-> FALSE, n |-> 0, text |-> t] : t \in {"tpl_1", "tpl_2", "nope"}}

\* uid_to_select_text: the listed template the identifier designates, or None
\* (the list holds the uids; a template's name is taken to be its uid)
UidToSelect(list, identifier) ==
    IF identifier.isdigit
    THEN LET idx == identifier.n - 1
         IN IF 0 <= idx /\ idx < Len(list) THEN list[idx + 1] ELSE None
    ELSE IF \E i \in 1..Len(list) : list[i] = identifier.text
         THEN identifier.text ELSE None

\* fetch_template_details: (details, error)
FetchTemplateDetailsResults(uid) ==
    {[data |-> RemoteTemplateDetails(uid), error |-> None]}
        \cup {[data |-> NoDetails, error |-> e] : e \in FetchErrors}

\* a faulty selection: the staged edits, the pending upload and the stored result
\* of the previous template are kept
ProcessTemplateSelectionKeepsEdits(uid) ==
    /\ action_select_template_uid' = None
    /\ \E r \in FetchTemplateDetailsResults(uid) :
          IF r.data # NoDetails
          THEN /\ selected_template_uid' = uid
               /\ selected_template_details' = r.data
               /\ assistant_response_content' = "selected"
               /\ UNCHANGED <<current_modifications, final_generated_image_url,
                              final_generated_image_bytes, image_upload_for_layer>>
          ELSE /\ selected_template_uid' = None
               /\ selected_template_details' = NoDetails
               /\ assistant_response_content' = "could_not_get_details"
               /\ UNCHANGED <<current_modifications, final_generated_image_url,
                              final_generated_image_bytes, image_upload_for_layer>>
    /\ calls' = {"fetch_template_details"}
    /\ render_request' = NoRequest

\* a faulty selection: the upload awaited for the previous template stays awaited
ProcessTemplateSelectionKeepsMarker(uid) ==
    /\ action_select_template_uid' = None
    /\ \E r \in FetchTemplateDetailsResults(uid) :
          IF r.data # NoDetails
          THEN /\ selected_template_uid' = uid
               /\ selected_template_details' = r.data
               /\ current_modifications' = <<>>
               /\ final_generated_image_url' = None
               /\ final_generated_image_bytes' = None
               /\ assistant_response_content' = "selected"
               /\ UNCHANGED image_upload_for_layer
          ELSE /\ selected_template_uid' = None
               /\ selected_template_details' = NoDetails
               /\ assistant_response_content' = "could_not_get_details"
               /\ UNCHANGED <<current_modifications, final_generated_image_url,
                              final_generated_image_bytes, image_upload_for_layer>>
    /\ calls' = {"fetch_template_details"}
    /\ render_request' = NoRequest

\* the top of the script, on the rerun that follows a selection request:
\* action_select_template_uid = uid is taken, reset, and the template loaded
ProcessTemplateSelection(uid) ==
    /\ action_select_template_uid' = None
    /\ \E r \in FetchTemplateDetailsResults(uid) :
          IF r.data # NoDetails
          THEN /\ selected_template_uid' = uid
               /\ selected_template_details' = r.data
               /\ current_modifications' = <<>>
               /\ final_generated_image_url' = None
               /\ final_generated_image_bytes' = None
               /\ image_upload_for_layer' = None
               /\ assistant_response_content' = "selected"
          ELSE /\ selected_template_uid' = None
               /\ selected_template_details' = NoDetails
               /\ assistant_response_content' = "could_not_get_details"
               /\ UNCHANGED <<current_modifications, final_generated_image_url,
                              final_generated_image_bytes, image_upload_for_layer>>
    /\ calls' = {"fetch_template_details"}
    /\ render_request' = NoRequest

\* "select template ..." typed in the chat; a template that is found is loaded by
\* the rerun that ends the handler
SelectTemplateByText ==
    /\ BbIdle
    /\ \E identifier \in Identifiers :
          IF templates_list_details = NoList
          THEN /\ assistant_response_content' = "show_templates_first"
               /\ calls' = {}
               /\ render_request' = NoRequest
               /\ UNCHANGED <<action_select_template_uid, selected_template_uid,
                              selected_template_details, current_modifications,
                              final_generated_image_url, final_generated_image_bytes,
                              image_upload_for_layer>>
          ELSE IF UidToSelect(templates_list_details, identifier) # None
          THEN ProcessTemplateSelection(UidToSelect(templates_list_details, identifier))
          ELSE /\ assistant_response_content' = "could_not_find_template"
               /\ calls' = {}
               /\ render_request' = NoRequest
               /\ UNCHANGED <<action_select_template_uid, selected_template_uid,
                              selected_template_details, current_modifications,
                              final_generated_image_url, final_generated_image_bytes,
                              image_upload_for_layer>>
    /\ bbKeysUnchanged /\ bbPollUnchanged
    /\ UNCHANGED <<templates_cache, templates_list_details, runVars, roaVars>>

\* a template button of the displayed list is clicked; the template is loaded by
\* the rerun that follows
ClickSelectTemplate ==
    /\ BbIdle
    /\ templates_list_details # NoList
    /\ \E i \in 1..Len(templates_list_details) :
          ProcessTemplateSelection(templates_list_details[i])
    /\ bbKeysUnchanged /\ bbPollUnchanged
    /\ UNCHANGED <<templates_cache, templates_list_details, runVars, roaVars>>

\* what llm_service.parse_modification_request can return: None, or a dict
Parsed(l, t, v) == [layer_name |-> l, modification_type |-> t, new_value |-> v]

ParsedModifications ==
    { Parsed("title", "text", "Sale"), Parsed("title", "text", "50% off"),
      Parsed("title", "color", "#FF0000"),
      Parsed("photo", "image_url", URL_X), Parsed("photo", "image_url", "x.png"),
      Parsed("photo", "image_url", USER_UPLOAD_PENDING),
      Parsed("photo", "text", USER_UPLOAD_PENDING),
      Parsed("accent", "color", "#FF0000"), Parsed("accent", "bogus", "Sale"),
      Parsed("nolayer", "text", "Sale"),
      Parsed("nolayer", "image_url", USER_UPLOAD_PENDING) }

\* a faulty branch: the parser's layer name is trusted
StagingTrustsParser(parsed, details, upload_ok) ==
    LET layer == parsed.layer_name
        type == parsed.modification_type
        val == parsed.new_value
        nothing(reply) == [reply |-> reply, mod |-> NoMod, upload_for |-> None]
    IN IF val = USER_UPLOAD_PENDING /\ type = "image_url"
       THEN IF upload_ok
            THEN [reply |-> "use_uploader", mod |-> NoMod, upload_for |-> layer]
            ELSE nothing("uploads_disabled")
       ELSE IF type = "text"
       THEN [reply |-> "noted", mod |-> Mod(layer, val, None, None), upload_for |-> None]
       ELSE IF type = "color"
       THEN [reply |-> "noted", mod |-> Mod(layer, None, None, val), upload_for |-> None]
       ELSE IF type = "image_url" /\ StartsWithHttp(val)
       THEN [reply |-> "noted", mod |-> Mod(layer, None, val, None), upload_for |-> None]
       ELSE nothing("no_valid_modification")

\* a faulty branch: the upload sentinel is staged as the image URL while the
\* upload is awaited
StagingUpsertsSentinel(parsed, details, upload_ok) ==
    LET layer == parsed.layer_name
        type == parsed.modification_type
        val == parsed.new_value
        nothing(reply) == [reply |-> reply, mod |-> NoMod, upload_for |-> None]
    IN IF layer \notin ActualLayerNames(details) THEN nothing("unknown_layer")
       ELSE IF type = "text"
       THEN [reply |-> "noted", mod |-> Mod(layer, val, None, None), upload_for |-> None]
       ELSE IF type = "color"
       THEN [reply |-> "noted", mod |-> Mod(layer, None, None, val), upload_for |-> None]
       ELSE IF type = "image_url"
       THEN IF val = USER_UPLOAD_PENDING
            THEN [reply |-> "use_uploader", mod |-> Mod(layer, None, val, None),
                  upload_for |-> layer]
            ELSE IF StartsWithHttp(val)
            THEN [reply |-> "noted", mod |-> Mod(layer, None, val, None),
                  upload_for |-> None]
            ELSE nothing("not_an_image_url")
       ELSE nothing("no_valid_modification")

\* what the modification branch decides for a parsed request: the reply, the
\* modification to upsert (or None) and the layer to await an upload for (or None)
Staging(parsed, details, upload_ok) ==
    LET layer == parsed.layer_name
        type == parsed.modification_type
        val == parsed.new_value
        nothing(reply) == [reply |-> reply, mod |-> NoMod, upload_for |-> None]
    IN IF layer \notin ActualLayerNames(details) THEN nothing("unknown_layer")
       ELSE IF val = USER_UPLOAD_PENDING /\ type = "image_url"
       THEN IF upload_ok
            THEN [reply |-> "use_uploader", mod |-> NoMod, upload_for |-> layer]
            ELSE nothing("uploads_disabled")
       ELSE IF type = "text"
       THEN [reply |-> "noted", mod |-> Mod(layer, val, None, None), upload_for |-> None]
       ELSE IF type = "color"
       THEN [reply |-> "noted", mod |-> Mod(layer, None, None, val), upload_for |-> None]
       ELSE IF type = "image_url"
       THEN IF StartsWithHttp(val)
            THEN [reply |-> "noted", mod |-> Mod(layer, None, val, None),
                  upload_for |-> None]
            ELSE nothing("not_an_image_url")
       ELSE nothing("no_valid_modification")

\* the modification branch on the parsed request: reply, upsert, upload marker
StageParsed(parsed) ==
    LET s == Staging(parsed, selected_template_details, freeimage_api_key_ok)
    IN /\ assistant_response_content' = s.reply
       /\ current_modifications' =
              IF s.mod # NoMod
              THEN UpsertModification(current_modifications, s.mod)
              ELSE current_modifications
       /\ image_upload_for_layer' =
              IF s.upload_for # None THEN s.upload_for
              ELSE image_upload_for_layer

\* a prompt with a modification keyword while a template is selected
ModifyLayer ==
    /\ BbIdle
    /\ selected_template_details # NoDetails
    /\ IF ~google_api_key_ok
       THEN /\ assistant_response_content' = "ai_parsing_disabled"
            /\ calls' = {}
            /\ render_request' = NoRequest
            /\ UNCHANGED <<current_modifications, image_upload_for_layer>>
       ELSE IF AvailableModsForLlm(selected_template_details) = <<>>
       THEN /\ assistant_response_content' = "no_editable_layers"
            /\ calls' = {}
            /\ render_request' = NoRequest
            /\ UNCHANGED <<current_modifications, image_upload_for_layer>>
       ELSE /\ calls' = {"parse_modification_request"}
            /\ render_request' = NoRequest
            /\ \/ /\ assistant_response_content' = "could_not_parse"
                  /\ UNCHANGED <<current_modifications, image_upload_for_layer>>
               \/ \E parsed \in ParsedModifications : StageParsed(parsed)
    /\ bbKeysUnchanged /\ bbPollUnchanged
    /\ UNCHANGED <<templates_cache, templates_list_details, selected_template_uid,
                   selected_template_details, action_select_template_uid,
                   final_generated_image_url, final_generated_image_bytes,
                   runVars, roaVars>>

\* freeimage_service.upload_image: a public URL, or None with an error
UploadResults == {URL_X, None}

\* a faulty callback: the uploader is dismissed when the upload fails
ConfirmImageUploadGivesUp(public_url) ==
    IF public_url # None
    THEN /\ current_modifications' =
                UpsertModification(current_modifications,
                                   Mod(image_upload_for_layer, None, public_url, None))
         /\ image_upload_for_layer' = None
         /\ assistant_response_content' = "image_uploaded"
    ELSE /\ assistant_response_content' = "upload_failed"
         /\ image_upload_for_layer' = None
         /\ UNCHANGED current_modifications

\* handle_confirm_image_upload on what upload_image returned
ConfirmImageUpload(public_url) ==
    IF public_url # None
    THEN /\ current_modifications' =
                UpsertModification(current_modifications,
                                   Mod(image_upload_for_layer, None, public_url, None))
         /\ image_upload_for_layer' = None
         /\ assistant_response_content' = "image_uploaded"
    ELSE /\ assistant_response_content' = "upload_failed"
         /\ UNCHANGED <<current_modifications, image_upload_for_layer>>

\* the uploader shown for the pending layer: the user confirms a file
HandleConfirmImageUpload ==
    /\ BbIdle
    /\ image_upload_for_layer # None
    /\ \E public_url \in UploadResults : ConfirmImageUpload(public_url)
    /\ calls' = {"upload_image"}
    /\ render_request' = NoRequest
    /\ bbKeysUnchanged /\ bbPollUnchanged
    /\ UNCHANGED <<templates_cache, templates_list_details, selected_template_uid,
                   selected_template_details, action_select_template_uid,
                   final_generated_image_url, final_generated_image_bytes,
                   runVars, roaVars>>

\* the uploader shown for the pending layer: the user cancels
HandleCancelImageUpload ==
    /\ BbIdle
    /\ image_upload_for_layer # None
    /\ image_upload_for_layer' = None
    /\ assistant_response_content' = "upload_cancelled"
    /\ calls' = {}
    /\ render_request' = NoRequest
    /\ bbKeysUnchanged /\ bbPollUnchanged
    /\ UNCHANGED <<templates_cache, templates_list_details, selected_template_uid,
                   selected_template_details, current_modifications,
                   action_select_template_uid, final_generated_image_url,
                   final_generated_image_bytes, runVars, roaVars>>

\* what bannerbear_service.generate_image can get back from POST /images?sync=true
RenderJson(s, u, id) == [kind |-> "json", status |-> s, image_url_png |-> u, uid |-> id]

GenerateImageResponses ==
    { RenderJson("completed", URL_OUT, "img_1"), RenderJson("completed", None, "img_1"),
      RenderJson("pending", None, "img_1"), RenderJson("pending", None, None),
      RenderJson("failed", None, "img_1"),
      [kind |-> "empty_json", status |-> None, image_url_png |-> None, uid |-> None],
      [kind |-> "HTTPError", status |-> None, image_url_png |-> None, uid |-> None],
      [kind |-> "ConnectionError", status |-> None, image_url_png |-> None, uid |-> None] }

\* a faulty precondition: an empty Modification Set is submitted too
GenerateBannerSubmitsEmpty(uid, mods) ==
    IF uid = None THEN "select_template_first" ELSE "submit"

\* the checks of "generate banner" before anything is sent
GenerateBannerPrecondition(uid, mods) ==
    IF uid = None THEN "select_template_first"
    ELSE IF mods = <<>> THEN "no_changes_yet"
    ELSE "submit"

\* a faulty handler: every response that names a job is polled
AfterInitialResponsePollsEveryJob(resp) ==
    IF resp.kind \in {"HTTPError", "ConnectionError"}
    THEN [reply |-> "request_failed", final_url |-> None, poll |-> FALSE]
    ELSE IF resp.kind = "empty_json"
    THEN [reply |-> "no_response", final_url |-> None, poll |-> FALSE]
    ELSE IF resp.uid # None
    THEN [reply |-> None, final_url |-> None, poll |-> TRUE]
    ELSE [reply |-> "response_unclear", final_url |-> None, poll |-> FALSE]

\* what the handler does with the initial response: the reply so far, the final
\* URL so far, and whether to poll
AfterInitialResponse(resp) ==
    IF resp.kind \in {"HTTPError", "ConnectionError"}
    THEN [reply |-> "request_failed", final_url |-> None, poll |-> FALSE]
    ELSE IF resp.kind = "empty_json"
    THEN [reply |-> "no_response", final_url |-> None, poll |-> FALSE]
    ELSE IF resp.status = "completed" /\ resp.image_url_png # None
    THEN [reply |-> None, final_url |-> resp.image_url_png, poll |-> FALSE]
    ELSE IF resp.status = "pending" /\ resp.uid # None
    THEN [reply |-> None, final_url |-> None, poll |-> TRUE]
    ELSE [reply |-> "response_unclear", final_url |-> None, poll |-> FALSE]

\* a faulty handler: the stored result is not cleared at its start, so that it
\* outlives a render that yields no URL
StoreRenderResultKeepsEarlier(final_url, reply) ==
    IF final_url # None
    THEN \E fetched \in BOOLEAN :
            /\ final_generated_image_url' = final_url
            /\ final_generated_image_bytes' = IF fetched THEN "png_bytes" ELSE None
            /\ assistant_response_content' =
                   IF fetched THEN "banner_generated" ELSE "generated_not_fetched"
    ELSE /\ UNCHANGED <<final_generated_image_url, final_generated_image_bytes>>
         /\ assistant_response_content' =
                IF reply # None THEN reply ELSE "did_not_complete"

\* the end of the handler, the stored result having been cleared at its start:
\* the result is stored, its bytes fetched, the reply chosen
StoreRenderResult(final_url, reply) ==
    IF final_url # None
    THEN \E fetched \in BOOLEAN :
            /\ final_generated_image_url' = final_url
            /\ final_generated_image_bytes' = IF fetched THEN "png_bytes" ELSE None
            /\ assistant_response_content' =
                   IF fetched THEN "banner_generated" ELSE "generated_not_fetched"
    ELSE /\ final_generated_image_url' = None
         /\ final_generated_image_bytes' = None
         /\ assistant_response_content' =
                IF reply # None THEN reply ELSE "did_not_complete"

\* a faulty handler: the staged modifications are cleared by the render
ModificationsClearedByRender(mods) == <<>>

\* current_modifications after the handler: the clearing is commented out
ModificationsAfterRender(mods) == mods

\* the handler from the response resp of generate_image on: the poll, if any, and
\* the storing of the result
SubmitRender(resp) ==
    LET a == AfterInitialResponse(resp)
    IN IF a.poll
       THEN \E r \in PollImageCompletion(bannerbear_api_key) :
               /\ calls' = {"generate_image", "poll_image_completion"}
               /\ render_request' =
                      RenderRequest(selected_template_uid, current_modifications)
               /\ last_poll_status' =
                      IF r.last_poll_status = NoPollStatus
                      THEN last_poll_status ELSE r.last_poll_status
               /\ StoreRenderResult(r.final_url,
                      IF r.poll_error THEN "polling_failed" ELSE None)
       ELSE /\ calls' = {"generate_image"}
            /\ render_request' =
                   RenderRequest(selected_template_uid, current_modifications)
            /\ StoreRenderResult(a.final_url, a.reply)
            /\ UNCHANGED last_poll_status

\* "generate banner" / "create banner": the whole handler, poll loop included
GenerateBanner ==
    /\ BbIdle
    /\ LET pre == GenerateBannerPrecondition(selected_template_uid, current_modifications)
       IN IF pre # "submit"
          THEN /\ assistant_response_content' = pre
               /\ calls' = {}
               /\ render_request' = NoRequest
               /\ UNCHANGED <<final_generated_image_url, final_generated_image_bytes,
                              last_poll_status>>
          ELSE \E resp \in GenerateImageResponses : SubmitRender(resp)
    /\ current_modifications' = ModificationsAfterRender(current_modifications)
    /\ bbKeysUnchanged
    /\ UNCHANGED <<templates_cache, templates_list_details, selected_template_uid,
                   selected_template_details,
                   action_select_template_uid, image_upload_for_layer, bbPoll,
                   runVars, roaVars>>

\* "generate with defaults"
GenerateWithDefaults ==
    /\ BbIdle
    /\ IF selected_template_uid = None
       THEN /\ assistant_response_content' = "select_template_first"
            /\ UNCHANGED current_modifications
       ELSE /\ current_modifications' = <<>>
            /\ assistant_response_content' = "type_generate_banner_to_confirm"
    /\ calls' = {}
    /\ render_request' = NoRequest
    /\ bbKeysUnchanged /\ bbPollUnchanged
    /\ UNCHANGED <<templates_cache, templates_list_details, selected_template_uid,
                   selected_template_details, action_select_template_uid,
                   final_generated_image_url, final_generated_image_bytes,
                   image_upload_for_layer, runVars, roaVars>>

\* any other prompt: the fallback reply
OtherPrompt ==
    /\ BbIdle
    /\ assistant_response_content' =
           IF selected_template_uid # None /\ selected_template_details # NoDetails
           THEN "i_can_help_modify" ELSE "hello_how_can_i_help"
    /\ calls' = {}
    /\ render_request' = NoRequest
    /\ bbKeysUnchanged /\ bbPollUnchanged
    /\ UNCHANGED <<templates_cache, templates_list_details, selected_template_uid,
                   selected_template_details, current_modifications,
                   action_select_template_uid, final_generated_image_url,
                   final_generated_image_bytes, image_upload_for_layer, runVars, roaVars>>

-----------------------------------------------------------------------------
(* roa_chat: handlers of src/roa_chat.py *)

MaxDecisionMods == 2              \* longest "modifications" list of one AI decision

\* modification dicts an AI decision can carry: "name" is required, the payload
\* keys are optional and not exclusive
DecisionMods ==
    { Mod("title", "Sale", None, None), Mod("title", "50% off", None, None),
      Mod("title", "Sale", None, "#FF0000"),
      Mod("photo", None, URL_X, None), Mod("nolayer", "Sale", None, None) }

RECURSIVE SeqsUpTo(_, _)
SeqsUpTo(S, n) ==
    IF n = 0 THEN {<<>>}
    ELSE LET shorter == SeqsUpTo(S, n - 1)
         IN shorter \cup {Append(q, x) : q \in shorter, x \in S}

\* the function-call arguments the model can return
Decisions ==
    [action : {"MODIFY"}, template_uid : {None} \cup TemplateUids,
     modifications : SeqsUpTo(DecisionMods, MaxDecisionMods)]
    \cup [action : {"GENERATE", "RESET", "CONVERSE"}, template_uid : {None},
          modifications : {<<>>}]

\* create_image_async: the "self" URL of the image object returned (None when the
\* object has none), or no object at all on a request error
CreateImageResponses == {"self", None, "request_error"}

\* the script runs with a file in the uploader and file_was_processed unset
StagedAfterRun(staged) ==
    IF uploaded_file /\ ~file_was_processed THEN "file_bytes" ELSE staged

\* the user attaches a file, or removes it: the script reruns
AttachFile ==
    /\ app = "roa_chat"
    /\ processing_prompt = None
    /\ uploaded_file' = ~uploaded_file
    /\ staged_file_bytes' =
           IF uploaded_file' /\ ~file_was_processed THEN "file_bytes"
           ELSE staged_file_bytes
    /\ file_sent' = FALSE
    /\ UNCHANGED <<runVars, bbVars, callVars, design_context, roa_response_text,
                   file_was_processed, processing_prompt, roaPoll>>

\* a prompt is submitted: it is queued for the next run
SubmitPrompt ==
    /\ app = "roa_chat"
    /\ processing_prompt = None
    /\ staged_file_bytes' = StagedAfterRun(staged_file_bytes)
    /\ file_was_processed' = FALSE
    /\ roa_response_text' = "thinking"
    /\ processing_prompt' = "prompt"
    /\ UNCHANGED <<runVars, bbVars, callVars, design_context, uploaded_file, file_sent,
                   roaPoll>>

\* the render of handle_ai_decision: create_image_async, then the poll loop
StartedRenderReplies ==
    UNION {IF initial_response = "request_error" THEN {"could_not_start"}
           ELSE {IF final_image # NoData /\ final_image.image_url_png # None
                 THEN "ai_text_with_image" ELSE "timed_out_or_failed" :
                    final_image \in PollForImageCompletionResults(initial_response)} :
              initial_response \in CreateImageResponses}

RenderReplies(context) ==
    IF context.template_uid = None THEN {"cannot_generate_yet"}
    ELSE StartedRenderReplies

\* a faulty handler: RESET unselects the template and keeps the modifications
ContextAfterDecisionResetKeepsEdits(context, decision) ==
    IF decision.action = "MODIFY"
    THEN [template_uid |->
              IF decision.template_uid # None /\ decision.template_uid # context.template_uid
              THEN decision.template_uid ELSE context.template_uid,
          modifications |->
              MergeModifications(context.modifications, decision.modifications)]
    ELSE IF decision.action = "RESET" THEN [context EXCEPT !.template_uid = None]
    ELSE context

\* design_context after handle_ai_decision
ContextAfterDecision(context, decision) ==
    IF decision.action = "MODIFY"
    THEN [template_uid |->
              IF decision.template_uid # None /\ decision.template_uid # context.template_uid
              THEN decision.template_uid ELSE context.template_uid,
          modifications |->
              MergeModifications(context.modifications, decision.modifications)]
    ELSE IF decision.action = "RESET" THEN EmptyDesignContext
    ELSE context

\* a faulty handler: choosing the first template triggers a render as well
TriggerGenerationOnFirstTemplate(context, decision) ==
    \/ /\ decision.action = "MODIFY"
       /\ decision.template_uid # None
       /\ decision.template_uid # context.template_uid
    \/ decision.action = "GENERATE"

\* trigger_generation of handle_ai_decision
TriggerGeneration(context, decision) ==
    \/ /\ decision.action = "MODIFY"
       /\ decision.template_uid # None
       /\ decision.template_uid # context.template_uid
       /\ context.template_uid # None
    \/ decision.action = "GENERATE"

\* handle_ai_decision: the new design_context, the reply and the calls made
HandleAiDecision(decision) ==
    LET context == ContextAfterDecision(design_context, decision)
    IN /\ design_context' = context
       /\ IF TriggerGeneration(design_context, decision)
          THEN /\ roa_response_text' \in RenderReplies(context)
               /\ calls' = IF roa_response_text' = "cannot_generate_yet" THEN {}
                           ELSE IF roa_response_text' = "could_not_start"
                           THEN {"create_image_async"}
                           ELSE {"create_image_async", "poll_for_image_completion"}
               /\ render_request' =
                      IF roa_response_text' = "cannot_generate_yet" THEN NoRequest
                      ELSE RenderRequest(context.template_uid, context.modifications)
          ELSE /\ roa_response_text' = "ai_text"
               /\ calls' = {}
               /\ render_request' = NoRequest

\* the run after a prompt was queued: upload, AI decision, handle_ai_decision
ProcessPrompt ==
    /\ app = "roa_chat"
    /\ processing_prompt # None
    /\ processing_prompt' = None
    /\ \E image_url \in {URL_X, None}, function_call \in BOOLEAN :
          LET staged == StagedAfterRun(staged_file_bytes)
              uploaded == staged # None /\ image_url # None
              final_prompt_for_ai == staged = None \/ image_url # None
          IN /\ file_was_processed' = IF uploaded THEN TRUE ELSE file_was_processed
             /\ file_sent' = IF uploaded /\ uploaded_file THEN TRUE ELSE file_sent
             /\ staged_file_bytes' =
                    IF uploaded_file /\ ~file_was_processed' THEN "file_bytes" ELSE None
             /\ IF final_prompt_for_ai /\ function_call
                THEN \E decision \in Decisions : HandleAiDecision(decision)
                ELSE /\ roa_response_text' = "trouble_connecting"
                     /\ calls' = {}
                     /\ render_request' = NoRequest
                     /\ UNCHANGED design_context
    /\ UNCHANGED <<runVars, bbVars, uploaded_file, roaPoll>>

-----------------------------------------------------------------------------
(* Poll loop steps, shared by the sessions and by direct calls *)

\* one pass of the loop of poll_image_completion
PollImageCompletionStep ==
    /\ bbPoll.pc = "polling"
    /\ PollLoopContinues(bbPoll)
    /\ bbPoll.queries < MaxQueries
    /\ \E ans \in PollAnswers :
          /\ bbPoll' = Answered(PollImageCompletionIteration(bbPoll, ans), ans)
          /\ last_poll_status' = LastPollStatusAfter(bbPoll, ans, last_poll_status)
    /\ UNCHANGED <<runVars, bbSessionVars, assistant_response_content,
                   callVars, roaVars>>

\* poll_image_completion leaves its loop
PollImageCompletionTimeout ==
    /\ bbPoll.pc = "polling"
    /\ ~PollLoopContinues(bbPoll)
    /\ bbPoll' = PollImageCompletionExhausted(bbPoll)
    /\ UNCHANGED <<runVars, bbSessionVars, last_poll_status, assistant_response_content,
                   callVars, roaVars>>

\* one pass of the loop of poll_for_image_completion
PollForImageCompletionStep ==
    /\ roaPoll.pc = "polling"
    /\ PollForLoopContinues(roaPoll)
    /\ roaPoll.queries < MaxQueries
    /\ \E ans \in PollAnswers :
          roaPoll' = Answered(PollForImageCompletionIteration(roaPoll, ans), ans)
    /\ UNCHANGED <<runVars, bbVars, callVars, design_context, roa_response_text,
                   roaFileVars, processing_prompt>>

\* poll_for_image_completion leaves its loop
PollForImageCompletionTimeout ==
    /\ roaPoll.pc = "polling"
    /\ ~PollForLoopContinues(roaPoll)
    /\ roaPoll' = PollForImageCompletionExhausted(roaPoll)
    /\ UNCHANGED <<runVars, bbVars, callVars, design_context, roa_response_text,
                   roaFileVars, processing_prompt>>

-----------------------------------------------------------------------------
(* The pollers called directly, with any arguments *)

InitPoll ==
    /\ app = "direct"
    /\ InitCommon
    /\ bannerbear_api_key \in {None, API_KEY}
    /\ google_api_key_ok = TRUE
    /\ freeimage_api_key_ok = TRUE

CallPollImageCompletion ==
    /\ app = "direct"
    /\ bbPoll.pc = "idle"
    /\ \E mr \in 0..MaxRetriesBound, d \in DelayChoices :
          bbPoll' = PollImageCompletionEnter(bannerbear_api_key, mr, d)
    /\ calls' = {"poll_image_completion"}
    /\ render_request' = NoRequest
    /\ UNCHANGED <<runVars, bbSessionVars, last_poll_status, assistant_response_content,
                   roaVars>>

CallPollForImageCompletion ==
    /\ app = "direct"
    /\ roaPoll.pc = "idle"
    /\ \E polling_url \in {None, "self"} :
          roaPoll' = PollForImageCompletionEnter(polling_url)
    /\ calls' = {"poll_for_image_completion"}
    /\ render_request' = NoRequest
    /\ UNCHANGED <<runVars, bbVars, design_context, roa_response_text,
                   roaFileVars, processing_prompt>>

NextPoll ==
    \/ CallPollImageCompletion
    \/ PollImageCompletionStep
    \/ PollImageCompletionTimeout
    \/ CallPollForImageCompletion
    \/ PollForImageCompletionStep
    \/ PollForImageCompletionTimeout

SpecPoll == InitPoll /\ [][NextPoll]_vars

-----------------------------------------------------------------------------
(* The Modification Set operations applied directly, both programs' in step *)

MaxStaged == 4                    \* most modifications staged in one run

\* the modifications staged: two values for two layers, one for a third
StagedMods ==
    { Mod("title", "Sale", None, None), Mod("title", "50% off", None, None),
      Mod("photo", None, URL_X, None), Mod("photo", None, URL_OUT, None),
      Mod("accent", None, None, "#FF0000") }

InitMods ==
    /\ app = "staging"
    /\ InitCommon
    /\ bannerbear_api_key = API_KEY
    /\ google_api_key_ok = TRUE
    /\ freeimage_api_key_ok = TRUE

\* a faulty client: the job posted shares the list that is staged into later
PostedRequestSharesList(request, mods) ==
    IF request = NoRequest THEN request ELSE [request EXCEPT !.modifications = mods]

\* the request posted before, once the list it was built from has become mods:
\* requests.post(json=payload) serialised the body when it was posted
PostedRequestAfterStaging(request, mods) == request

\* one modification goes through the upsert loop of app.py and through the
\* MODIFY merge of handle_ai_decision
StageModification ==
    /\ app = "staging"
    /\ Len(staging_log) < MaxStaged
    /\ \E mod \in StagedMods :
          /\ current_modifications' = UpsertModification(current_modifications, mod)
          /\ design_context' =
                 [design_context EXCEPT
                     !.modifications = MergeModifications(@, <<mod>>)]
          /\ staging_log' = Append(staging_log, mod)
    /\ render_request' = PostedRequestAfterStaging(render_request, current_modifications')
    /\ bbKeysUnchanged /\ bbPollUnchanged
    /\ UNCHANGED <<app, client_return, templates_cache, templates_list_details, selected_template_uid,
                   selected_template_details, action_select_template_uid,
                   final_generated_image_url, final_generated_image_bytes,
                   image_upload_for_layer, assistant_response_content, calls,
                   roa_response_text, roaFileVars, processing_prompt, roaPoll>>

\* one decision with two modifications goes through the MODIFY merge, and its
\* modifications one after the other through the upsert loop
StageDecision ==
    /\ app = "staging"
    /\ Len(staging_log) + 2 <= MaxStaged
    /\ \E m1 \in StagedMods, m2 \in StagedMods :
          /\ current_modifications' =
                 UpsertModification(UpsertModification(current_modifications, m1), m2)
          /\ design_context' =
                 [design_context EXCEPT
                     !.modifications = MergeModifications(@, <<m1, m2>>)]
          /\ staging_log' = staging_log \o <<m1, m2>>
    /\ render_request' = PostedRequestAfterStaging(render_request, current_modifications')
    /\ bbKeysUnchanged /\ bbPollUnchanged
    /\ UNCHANGED <<app, client_return, templates_cache, templates_list_details, selected_template_uid,
                   selected_template_details, action_select_template_uid,
                   final_generated_image_url, final_generated_image_bytes,
                   image_upload_for_layer, assistant_response_content, calls,
                   roa_response_text, roaFileVars, processing_prompt, roaPoll>>

\* generate_image(template_uid, modifications) of bannerbear_service.py, or
\* create_image_async of roa_chat.py, posts the set reached
SubmitStaged ==
    /\ app = "staging"
    /\ \E uid \in TemplateUids,
          mods \in {current_modifications, design_context.modifications} :
          render_request' = RenderRequest(uid, mods)
    /\ calls' = {"generate_image", "create_image_async"}
    /\ UNCHANGED <<runVars, bbVars, roaVars>>

NextMods ==
    \/ StageModification
    \/ StageDecision
    \/ SubmitStaged

SpecMods == InitMods /\ [][NextMods]_vars

-----------------------------------------------------------------------------
(* The functions of bannerbear_service.py called directly, with or without a *)
(* credential in st.session_state                                            *)

\* a faulty helper: headers are built whether or not there is a key
GetBbHeadersWithoutKey(api_key) == "Bearer"

\* _get_bb_headers: None without a key
GetBbHeaders(api_key) == IF api_key = None THEN None ELSE "Bearer"

\* the body of fetch_all_templates_cached
FetchAllTemplates(api_key) ==
    IF GetBbHeaders(api_key) = None
    THEN {Returned("fetch_all_templates_cached", FALSE, "key_not_configured", 0)}
    ELSE {Returned("fetch_all_templates_cached", r.data # NoList, r.error, 1) :
             r \in FetchAllTemplatesResults(api_key)}

\* fetch_template_details(template_uid)
FetchTemplateDetails(api_key, template_uid) ==
    IF GetBbHeaders(api_key) = None
    THEN {Returned("fetch_template_details", FALSE, "key_not_configured", 0)}
    ELSE IF template_uid = None
    THEN {Returned("fetch_template_details", FALSE, "no_template_uid", 0)}
    ELSE {Returned("fetch_template_details", r.data # NoDetails, r.error, 1) :
             r \in FetchTemplateDetailsResults(template_uid)}

\* generate_image(template_uid, modifications)
GenerateImage(api_key, template_uid) ==
    IF GetBbHeaders(api_key) = None
    THEN {Returned("generate_image", FALSE, "key_missing", 0)}
    ELSE IF template_uid = None
    THEN {Returned("generate_image", FALSE, "template_uid_missing", 0)}
    ELSE {Returned("generate_image", resp.kind \in {"json", "empty_json"},
                   IF resp.kind \in {"json", "empty_json"} THEN None ELSE resp.kind, 1) :
             resp \in GenerateImageResponses}

InitClient ==
    /\ app = "client"
    /\ InitCommon
    /\ bannerbear_api_key \in {None, API_KEY}
    /\ google_api_key_ok = TRUE
    /\ freeimage_api_key_ok = TRUE

\* fetch_all_templates_cached(): the body runs when st.cache_data holds no entry
CallFetchAllTemplatesCached ==
    /\ app = "client"
    /\ bbPoll.pc # "polling"
    /\ IF templates_cache # <<>>
       THEN /\ client_return' =
                   Returned("fetch_all_templates_cached", templates_cache[1].data # NoList,
                            templates_cache[1].error, 0)
            /\ UNCHANGED templates_cache
       ELSE \E ret \in FetchAllTemplates(bannerbear_api_key) :
               /\ client_return' = ret
               /\ templates_cache' =
                      <<[data |-> IF ret.data THEN CatalogOf(bannerbear_api_key) ELSE NoList,
                         error |-> ret.error]>>
    /\ calls' = {"fetch_all_templates_cached"}
    /\ render_request' = NoRequest
    /\ bbKeysUnchanged /\ bbPollUnchanged
    /\ UNCHANGED <<app, staging_log, templates_list_details, selected_template_uid,
                   selected_template_details, current_modifications,
                   action_select_template_uid, final_generated_image_url,
                   final_generated_image_bytes, image_upload_for_layer,
                   assistant_response_content, roaVars>>

CallFetchTemplateDetails ==
    /\ app = "client"
    /\ bbPoll.pc # "polling"
    /\ \E template_uid \in TemplateUids \cup {None} :
          client_return' \in FetchTemplateDetails(bannerbear_api_key, template_uid)
    /\ calls' = {"fetch_template_details"}
    /\ render_request' = NoRequest
    /\ UNCHANGED <<app, staging_log, bbVars, roaVars>>

CallGenerateImage ==
    /\ app = "client"
    /\ bbPoll.pc # "polling"
    /\ \E template_uid \in TemplateUids \cup {None}, modifications \in {<<>>, TitleStaged} :
          /\ client_return' \in GenerateImage(bannerbear_api_key, template_uid)
          /\ render_request' = IF client_return'.requests = 0 THEN NoRequest
                                ELSE RenderRequest(template_uid, modifications)
    /\ calls' = {"generate_image"}
    /\ UNCHANGED <<app, staging_log, bbVars, roaVars>>

\* poll_image_completion(image_uid), its loop one step per pass
CallPollImageCompletionDefault ==
    /\ app = "client"
    /\ bbPoll.pc \in {"idle", "returned"}
    /\ bbPoll' = PollImageCompletionEnter(bannerbear_api_key, DEFAULT_MAX_RETRIES,
                                          DEFAULT_DELAY_SECONDS)
    /\ calls' = {"poll_image_completion"}
    /\ render_request' = NoRequest
    /\ UNCHANGED <<runVars, bbSessionVars, last_poll_status,
                   assistant_response_content, roaVars>>

NextClient ==
    \/ CallFetchAllTemplatesCached
    \/ CallFetchTemplateDetails
    \/ CallGenerateImage
    \/ CallPollImageCompletionDefault
    \/ PollImageCompletionStep
    \/ PollImageCompletionTimeout

SpecClient == InitClient /\ [][NextClient]_vars

-----------------------------------------------------------------------------
(* bbear sessions of one server process, one after the other: st.session_state *)
(* is new in each, the st.cache_data entry is the process's                    *)

Credentials == {API_KEY, OTHER_KEY}

InitCache ==
    /\ app = "bbear"
    /\ InitCommon
    /\ bannerbear_api_key \in Credentials
    /\ google_api_key_ok = TRUE
    /\ freeimage_api_key_ok = TRUE

\* a new session starts: initialize_session_state fills an empty st.session_state
\* with the credential the environment holds then
NewSession ==
    /\ BbIdle
    /\ bannerbear_api_key' \in Credentials
    /\ templates_list_details' = NoList
    /\ selected_template_uid' = None
    /\ selected_template_details' = NoDetails
    /\ current_modifications' = <<>>
    /\ action_select_template_uid' = None
    /\ final_generated_image_url' = None
    /\ final_generated_image_bytes' = None
    /\ image_upload_for_layer' = None
    /\ last_poll_status' = NoPollStatus
    /\ assistant_response_content' = "greeting"
    /\ calls' = {}
    /\ render_request' = NoRequest
    /\ UNCHANGED <<google_api_key_ok, freeimage_api_key_ok, templates_cache, bbPoll,
                   runVars, roaVars>>

NextCache ==
    \/ NewSession
    \/ ShowTemplates
    \/ TemplatesCacheExpires
    \/ SelectTemplateByText
    \/ ClickSelectTemplate
    \/ OtherPrompt

SpecCache == InitCache /\ [][NextCache]_vars

-----------------------------------------------------------------------------
(* A render of a session, its poll loop one step per iteration *)

\* a session in which a template is selected and a modification staged
InitRender ==
    /\ app \in {"bbear", "roa_chat"}
    /\ staging_log = <<>>
    /\ client_return = NoReturn
    /\ bannerbear_api_key = API_KEY
    /\ google_api_key_ok = TRUE
    /\ freeimage_api_key_ok = TRUE
    /\ templates_cache = <<>>
    /\ templates_list_details = NoList
    /\ action_select_template_uid = None
    /\ final_generated_image_url = None
    /\ final_generated_image_bytes = None
    /\ image_upload_for_layer = None
    /\ last_poll_status = NoPollStatus
    /\ calls = {}
    /\ render_request = NoRequest
    /\ bbPoll = IdleBbPoll
    /\ uploaded_file = FALSE
    /\ staged_file_bytes = None
    /\ file_was_processed = FALSE
    /\ file_sent = FALSE
    /\ processing_prompt = None
    /\ roaPoll = IdleRoaPoll
    /\ \E uid \in TemplateUids :
          IF app = "bbear"
          THEN /\ selected_template_uid = uid
               /\ selected_template_details = RemoteTemplateDetails(uid)
               /\ current_modifications = <<Mod("title", "Sale", None, None)>>
               /\ assistant_response_content = "noted"
               /\ design_context = EmptyDesignContext
               /\ roa_response_text = "greeting"
          ELSE /\ selected_template_uid = None
               /\ selected_template_details = NoDetails
               /\ current_modifications = <<>>
               /\ assistant_response_content = "greeting"
               /\ design_context = [template_uid |-> uid,
                                    modifications |-> <<Mod("title", "Sale", None, None)>>]
               /\ roa_response_text = "ai_text"

\* "generate banner" up to the poll: the stored result is cleared, the request
\* posted, and a pending job announced in the chat before it is polled
BeginGenerateBanner ==
    /\ BbIdle
    /\ bbPoll.pc = "idle"
    /\ GenerateBannerPrecondition(selected_template_uid, current_modifications) = "submit"
    /\ \E resp \in GenerateImageResponses :
          LET a == AfterInitialResponse(resp)
          IN IF a.poll
             THEN /\ final_generated_image_url' = None
                  /\ final_generated_image_bytes' = None
                  /\ assistant_response_content' = "processing_waiting"
                  /\ bbPoll' = PollImageCompletionEnter(bannerbear_api_key,
                                    DEFAULT_MAX_RETRIES, DEFAULT_DELAY_SECONDS)
             ELSE /\ StoreRenderResult(a.final_url, a.reply)
                  /\ UNCHANGED bbPoll
    /\ calls' = {"generate_image"}
    /\ render_request' = RenderRequest(selected_template_uid, current_modifications)
    /\ bbKeysUnchanged
    /\ UNCHANGED <<templates_cache, templates_list_details, selected_template_uid,
                   selected_template_details, current_modifications,
                   action_select_template_uid, image_upload_for_layer, last_poll_status,
                   runVars, roaVars>>

\* "generate banner" from the return of poll_image_completion to its end
FinishGenerateBanner ==
    /\ app = "bbear"
    /\ bbPoll.pc = "returned"
    /\ StoreRenderResult(bbPoll.url, IF bbPoll.error # None THEN "polling_failed" ELSE None)
    /\ bbPoll' = IdleBbPoll
    /\ calls' = {"generate_image", "poll_image_completion"}
    /\ bbKeysUnchanged
    /\ UNCHANGED <<templates_cache, templates_list_details, selected_template_uid,
                   selected_template_details, current_modifications,
                   action_select_template_uid, image_upload_for_layer, last_poll_status,
                   render_request, runVars, roaVars>>

\* the run after a prompt the model answers with GENERATE, no file staged and a
\* template chosen: handle_ai_decision up to the poll
StartGeneration ==
    /\ app = "roa_chat"
    /\ processing_prompt # None
    /\ roaPoll.pc = "idle"
    /\ staged_file_bytes = None
    /\ design_context.template_uid # None
    /\ \E initial_response \in CreateImageResponses :
          IF initial_response = "request_error"
          THEN /\ roa_response_text' = "could_not_start"
               /\ processing_prompt' = None
               /\ UNCHANGED roaPoll
          ELSE /\ roaPoll' = PollForImageCompletionEnter(initial_response)
               /\ UNCHANGED <<roa_response_text, processing_prompt>>
    /\ calls' = {"create_image_async"}
    /\ render_request' =
           RenderRequest(design_context.template_uid, design_context.modifications)
    /\ UNCHANGED <<runVars, bbVars, design_context, roaFileVars>>

\* handle_ai_decision from the return of poll_for_image_completion to its end
FinishGeneration ==
    /\ app = "roa_chat"
    /\ roaPoll.pc = "returned"
    /\ roa_response_text' =
           IF roaPoll.ret # NoData /\ roaPoll.ret.image_url_png # None
           THEN "ai_text_with_image" ELSE "timed_out_or_failed"
    /\ roaPoll' = IdleRoaPoll
    /\ processing_prompt' = None
    /\ calls' = {"create_image_async", "poll_for_image_completion"}
    /\ UNCHANGED <<runVars, bbVars, render_request, design_context, roaFileVars>>

NextRender ==
    \/ BeginGenerateBanner
    \/ PollImageCompletionStep
    \/ PollImageCompletionTimeout
    \/ FinishGenerateBanner
    \/ SubmitPrompt
    \/ StartGeneration
    \/ PollForImageCompletionStep
    \/ PollForImageCompletionTimeout
    \/ FinishGeneration

\* every request issued is answered or raises, the script thread that runs a
\* handler goes on running it, and the run queued by a submitted prompt takes place
RenderRuns ==
    /\ WF_vars(PollImageCompletionStep) /\ WF_vars(PollImageCompletionTimeout)
    /\ WF_vars(FinishGenerateBanner)
    /\ WF_vars(StartGeneration)
    /\ WF_vars(PollForImageCompletionStep) /\ WF_vars(PollForImageCompletionTimeout)
    /\ WF_vars(FinishGeneration)

SpecRender == InitRender /\ [][NextRender]_vars /\ RenderRuns

-----------------------------------------------------------------------------
(* A render of a session whose user goes on typing *)

\* Neither script disables its chat input while a handler runs, and neither keeps
\* a busy flag: st.chat_input is evaluated by every run of the script.  A prompt
\* sent while a poll loop sleeps makes Streamlit run the script again for it at
\* once; the run in progress is stopped at its next Streamlit call, and nothing it
\* does after the prompt reaches the session.

\* bbear: a modification prompt sent while "generate banner" polls
ModifyLayerDuringPoll ==
    /\ BbIdle
    /\ bbPoll.pc = "polling"
    /\ selected_template_details # NoDetails
    /\ google_api_key_ok
    /\ AvailableModsForLlm(selected_template_details) # <<>>
    /\ \E parsed \in ParsedModifications : StageParsed(parsed)
    /\ bbPoll' = IdleBbPoll
    /\ calls' = {"parse_modification_request"}
    /\ render_request' = NoRequest
    /\ bbKeysUnchanged
    /\ UNCHANGED <<templates_cache, templates_list_details, selected_template_uid,
                   selected_template_details, action_select_template_uid,
                   final_generated_image_url, final_generated_image_bytes,
                   last_poll_status, runVars, roaVars>>

\* roa_chat: a prompt sent while handle_ai_decision polls is queued for the next run
SubmitPromptDuringPoll ==
    /\ app = "roa_chat"
    /\ roaPoll.pc = "polling"
    /\ roaPoll' = IdleRoaPoll
    /\ staged_file_bytes' = StagedAfterRun(staged_file_bytes)
    /\ file_was_processed' = FALSE
    /\ roa_response_text' = "thinking"
    /\ processing_prompt' = "prompt"
    /\ UNCHANGED <<runVars, bbVars, callVars, design_context, uploaded_file, file_sent>>

NextReruns ==
    \/ BeginGenerateBanner
    \/ PollImageCompletionStep
    \/ PollImageCompletionTimeout
    \/ FinishGenerateBanner
    \/ SubmitPrompt
    \/ StartGeneration
    \/ PollForImageCompletionStep
    \/ PollForImageCompletionTimeout
    \/ FinishGeneration
    \/ ModifyLayerDuringPoll
    \/ SubmitPromptDuringPoll

SpecReruns == InitRender /\ [][NextReruns]_vars

-----------------------------------------------------------------------------
(* The sessions *)

Next ==
    \/ ShowTemplates
    \/ TemplatesCacheExpires
    \/ SelectTemplateByText
    \/ ClickSelectTemplate
    \/ ModifyLayer
    \/ HandleConfirmImageUpload
    \/ HandleCancelImageUpload
    \/ GenerateBanner
    \/ GenerateWithDefaults
    \/ OtherPrompt
    \/ AttachFile
    \/ SubmitPrompt
    \/ ProcessPrompt

Spec == Init /\ [][Next]_vars

-----------------------------------------------------------------------------
(* Modification Set properties *)

\* C1: in every state of either session, neither Modification Set
\* (current_modifications of bbear, design_context["modifications"] of roa_chat)
\* holds two entries with the same layer name.
ModificationSetHasNoDuplicates ==
    /\ NoDuplicateNames(current_modifications)
    /\ NoDuplicateNames(design_context.modifications)

\* a bbear session that staged two layers, one of them through a confirmed upload,
\* and rendered
TwoLayersStagedAndRendered ==
    /\ app = "bbear"
    /\ Len(current_modifications) = 2
    /\ \E i \in 1..2 : current_modifications[i].image_url = URL_X
    /\ assistant_response_content = "image_uploaded"
    /\ final_generated_image_url # None

\* what the Modification Set is to become when mod is staged into mods: the entry
\* of that layer replaced where it stands, or mod added at the end
StagedInPlaceOrAppended(mods, mod) ==
    IF \E i \in 1..Len(mods) : mods[i].name = mod.name
    THEN [i \in 1..Len(mods) |-> IF mods[i].name = mod.name THEN mod ELSE mods[i]]
    ELSE mods \o <<mod>>

\* C2 (checked under SpecMods): staging any modification into the set reached, by
\* the upsert loop or by the MODIFY merge, replaces the entry of its layer at its
\* position or appends it at the end; and after staging A, B, then A again, both
\* sets are [A, B] with A's latest value.
StagingReplacesInPlaceOrAppends ==
    /\ \A mod \in StagedMods :
          /\ UpsertModification(current_modifications, mod)
                 = StagedInPlaceOrAppended(current_modifications, mod)
          /\ MergeModifications(design_context.modifications, <<mod>>)
                 = StagedInPlaceOrAppended(design_context.modifications, mod)
    /\ (/\ Len(staging_log) = 3
        /\ staging_log[1].name = staging_log[3].name
        /\ staging_log[2].name # staging_log[1].name) =>
          /\ current_modifications = <<staging_log[3], staging_log[2]>>
          /\ design_context.modifications = <<staging_log[3], staging_log[2]>>

\* title, photo, then title again with another text: both sets hold the new title
\* first and the photo second
StagedABAReached ==
    /\ staging_log = <<Mod("title", "Sale", None, None),
                       Mod("photo", None, URL_X, None),
                       Mod("title", "50% off", None, None)>>
    /\ current_modifications =
           <<Mod("title", "50% off", None, None), Mod("photo", None, URL_X, None)>>
    /\ design_context.modifications = current_modifications

\* C3 (checked under SpecMods): for the set reached and every modification,
\* staging it twice gives what staging it once gives, by the upsert loop and by
\* the MODIFY merge; and when all that was staged from the empty set is one
\* modification, once or repeatedly, the set holds exactly that modification.
UpsertIsIdempotent ==
    /\ \A mod \in StagedMods :
          /\ UpsertModification(UpsertModification(current_modifications, mod), mod)
                 = UpsertModification(current_modifications, mod)
          /\ MergeModifications(
                 MergeModifications(design_context.modifications, <<mod>>), <<mod>>)
                 = MergeModifications(design_context.modifications, <<mod>>)
          /\ MergeModifications(design_context.modifications, <<mod, mod>>)
                 = MergeModifications(design_context.modifications, <<mod>>)
    /\ (/\ staging_log # <<>>
        /\ \A i \in 1..Len(staging_log) : staging_log[i] = staging_log[1]) =>
          /\ current_modifications = <<staging_log[1]>>
          /\ design_context.modifications = <<staging_log[1]>>

\* the same modification staged twice from the empty set: one entry, holding it
StagedTwiceReached ==
    /\ staging_log = <<Mod("photo", None, URL_X, None),
                       Mod("photo", None, URL_X, None)>>
    /\ current_modifications = <<Mod("photo", None, URL_X, None)>>
    /\ design_context.modifications = <<Mod("photo", None, URL_X, None)>>

\* the entries of mods for layers other than n, in their order
EntriesOfOtherLayers(mods, n) == SelectSeq(mods, LAMBDA m : m.name # n)

\* C38 (checked under SpecMods): staging a modification of one layer, by the
\* upsert loop or by the MODIFY merge, leaves the entries of the other layers as
\* they were, in value and in order, and makes the set one longer when it had no
\* entry for the layer and no longer when it had one.
UpsertLeavesOtherEntries ==
    [][Len(staging_log') = Len(staging_log) + 1 =>
          LET mod == staging_log'[Len(staging_log')]
              grows(mods) == IF \E i \in 1..Len(mods) : mods[i].name = mod.name
                             THEN 0 ELSE 1
          IN /\ EntriesOfOtherLayers(current_modifications', mod.name)
                    = EntriesOfOtherLayers(current_modifications, mod.name)
             /\ Len(current_modifications')
                    = Len(current_modifications) + grows(current_modifications)
             /\ EntriesOfOtherLayers(design_context'.modifications, mod.name)
                    = EntriesOfOtherLayers(design_context.modifications, mod.name)
             /\ Len(design_context'.modifications)
                    = Len(design_context.modifications)
                         + grows(design_context.modifications)]_vars

\* with three layers staged, the one in the middle has been staged again
MiddleEntryRestagedReached ==
    /\ staging_log = <<Mod("title", "Sale", None, None),
                       Mod("photo", None, URL_X, None),
                       Mod("accent", None, None, "#FF0000"),
                       Mod("photo", None, URL_OUT, None)>>
    /\ current_modifications = <<Mod("title", "Sale", None, None),
                                 Mod("photo", None, URL_OUT, None),
                                 Mod("accent", None, None, "#FF0000")>>
    /\ design_context.modifications = current_modifications

-----------------------------------------------------------------------------
(* bbear session properties *)

SelectsTemplate == SelectTemplateByText \/ ClickSelectTemplate

\* C12: every successful template selection of a bbear session, whatever was
\* selected, staged, awaited or rendered before, leaves the Modification Set
\* empty, the pending-upload marker null and the render result (URL and bytes)
\* null, with the new template selected.
TemplateSwitchResetsState ==
    [][(SelectsTemplate /\ assistant_response_content' = "selected")
          => /\ selected_template_uid' \in TemplateUids
             /\ selected_template_details' = RemoteTemplateDetails(selected_template_uid')
             /\ current_modifications' = <<>>
             /\ image_upload_for_layer' = None
             /\ final_generated_image_url' = None
             /\ final_generated_image_bytes' = None]_vars

\* tpl_2 has just been selected in a session that had staged modifications and
\* polled a render of them before: nothing of that is left
TemplateSwitchedAfterRender ==
    /\ app = "bbear"
    /\ assistant_response_content = "selected"
    /\ selected_template_uid = "tpl_2"
    /\ last_poll_status # NoPollStatus
    /\ current_modifications = <<>>
    /\ image_upload_for_layer = None
    /\ final_generated_image_url = None

\* a step of the modification branch on the parsed request
StagesParsed(parsed) ==
    "parse_modification_request" \in calls' /\ StageParsed(parsed) /\ ModifyLayer

\* C15: every step of the modification branch on a parsed request whose layer name
\* is not a layer of the selected template, whatever its kind and value, replies
\* that the layer is unknown and leaves the Modification Set and the
\* pending-upload marker as they were.
UnknownLayerIsRejected ==
    [][\A parsed \in ParsedModifications :
          (/\ StagesParsed(parsed)
           /\ parsed.layer_name \notin ActualLayerNames(selected_template_details))
             => /\ assistant_response_content' = "unknown_layer"
                /\ UNCHANGED <<current_modifications, image_upload_for_layer>>]_vars

\* an unknown layer was rejected while a modification is staged and an upload is
\* awaited
UnknownLayerRejectedReached ==
    /\ app = "bbear"
    /\ assistant_response_content = "unknown_layer"
    /\ current_modifications # <<>>
    /\ image_upload_for_layer # None

\* C17: no entry of the Modification Set of a bbear session ever has the upload
\* sentinel as its image URL, and every step of the modification branch on an
\* image modification whose value is the sentinel leaves the Modification Set as
\* it was.
SentinelIsNeverStaged ==
    [][/\ \A i \in 1..Len(current_modifications') :
             current_modifications'[i].image_url # USER_UPLOAD_PENDING
       /\ \A parsed \in ParsedModifications :
             (/\ StagesParsed(parsed)
              /\ parsed.modification_type = "image_url"
              /\ parsed.new_value = USER_UPLOAD_PENDING)
                => UNCHANGED current_modifications]_vars

\* the upload for photo is awaited and the Modification Set still holds the title
\* alone
UploadAwaitedReached ==
    /\ app = "bbear"
    /\ assistant_response_content = "use_uploader"
    /\ image_upload_for_layer = "photo"
    /\ current_modifications = <<Mod("title", "Sale", None, None)>>

\* C18: every resolution of a pending upload either got a public URL, and then the
\* marker's layer holds that URL as its image modification, replaced in place or
\* appended, and the marker is cleared; or failed, and then the Modification Set
\* is as it was and the marker stays set.
UploadResolutionStagesOrKeeps ==
    [][HandleConfirmImageUpload =>
          \/ /\ assistant_response_content' = "image_uploaded"
             /\ \E public_url \in UploadResults \ {None} :
                   current_modifications' =
                       StagedInPlaceOrAppended(current_modifications,
                           Mod(image_upload_for_layer, None, public_url, None))
             /\ image_upload_for_layer' = None
          \/ /\ assistant_response_content' = "upload_failed"
             /\ image_upload_for_layer' = image_upload_for_layer
             /\ image_upload_for_layer' # None
             /\ UNCHANGED current_modifications]_vars

\* an upload failed while a modification is staged: the uploader is still shown
UploadFailedReached ==
    /\ app = "bbear"
    /\ assistant_response_content = "upload_failed"
    /\ image_upload_for_layer = "photo"
    /\ current_modifications # <<>>

\* C19: in a bbear session with the template of layers title (text) and photo
\* (image) selected: staging title = "Sale" into the empty set gives [title];
\* staging the upload sentinel for photo then sets the marker to photo and leaves
\* the set [title]; resolving the upload to a URL then gives [title, photo] in
\* that order and clears the marker; and "generate banner" then, when the job is
\* pending at first and polled, posts one request with that template and
\* exactly those two modifications, leaves the set as it is, and records the
\* completed URL when, and only when, the poll delivered it.
StageUploadRenderScenario ==
    [][(/\ selected_template_uid = "tpl_1"
        /\ selected_template_details = RemoteTemplateDetails("tpl_1")
        /\ freeimage_api_key_ok)
          => /\ (/\ StagesParsed(Parsed("title", "text", "Sale"))
                 /\ current_modifications = <<>>)
                   => /\ current_modifications' = TitleStaged
                      /\ UNCHANGED image_upload_for_layer
             /\ (/\ StagesParsed(Parsed("photo", "image_url", USER_UPLOAD_PENDING))
                 /\ current_modifications = TitleStaged)
                   => /\ image_upload_for_layer' = "photo"
                      /\ current_modifications' = TitleStaged
             /\ (/\ HandleConfirmImageUpload
                 /\ assistant_response_content' = "image_uploaded"
                 /\ image_upload_for_layer = "photo"
                 /\ current_modifications = TitleStaged)
                   => /\ current_modifications' = TitleAndPhotoStaged
                      /\ image_upload_for_layer' = None
             /\ (/\ GenerateBanner
                 /\ "poll_image_completion" \in calls'
                 /\ current_modifications = TitleAndPhotoStaged)
                   => /\ calls' = {"generate_image", "poll_image_completion"}
                      /\ render_request' = [template |-> "tpl_1",
                                            modifications |-> TitleAndPhotoStaged]
                      /\ current_modifications' = TitleAndPhotoStaged
                      /\ final_generated_image_url' \in {URL_OUT, None}
                      /\ (final_generated_image_url' = URL_OUT)
                            <=> assistant_response_content'
                                   \in {"banner_generated", "generated_not_fetched"}]_vars

\* the scenario has run to its end: both modifications were posted, the job was
\* pending at the first status query, and the completed URL is recorded
ScenarioRendered ==
    /\ app = "bbear"
    /\ selected_template_uid = "tpl_1"
    /\ current_modifications = TitleAndPhotoStaged
    /\ image_upload_for_layer = None
    /\ calls = {"generate_image", "poll_image_completion"}
    /\ render_request = [template |-> "tpl_1", modifications |-> TitleAndPhotoStaged]
    /\ last_poll_status = PollStatus("pending_attempt", 1, None)
    /\ final_generated_image_url = URL_OUT
    /\ assistant_response_content = "banner_generated"

\* C23: in every "generate banner" that posted a request, poll_image_completion is
\* called exactly when the response is pending and names a job; a response that
\* is completed with an image URL makes that URL the result, and an error of the
\* request is reported, in both cases without a status query.
PollerInvokedOnlyWhenPending ==
    [][\A resp \in GenerateImageResponses :
          ("generate_image" \in calls' /\ SubmitRender(resp) /\ GenerateBanner)
             => /\ "poll_image_completion" \in calls'
                      <=> (resp.kind = "json" /\ resp.status = "pending" /\ resp.uid # None)
                /\ (resp.kind = "json" /\ resp.status = "completed"
                                       /\ resp.image_url_png # None)
                      => /\ final_generated_image_url' = resp.image_url_png
                         /\ UNCHANGED last_poll_status
                /\ resp.kind \in {"HTTPError", "ConnectionError"}
                      => /\ final_generated_image_url' = None
                         /\ assistant_response_content' = "request_failed"
                         /\ UNCHANGED last_poll_status]_vars

\* a render was completed by the response to the request itself
CompletedWithoutPollReached ==
    /\ app = "bbear"
    /\ calls = {"generate_image"}
    /\ render_request # NoRequest
    /\ final_generated_image_url = URL_OUT
    /\ last_poll_status = NoPollStatus

\* C24: whenever the latest fetch of the template catalog of a bbear session has
\* failed, the next "show templates" can succeed: a step of it that lists the
\* templates is possible.
FailedCatalogFetchCanBeRetried ==
    (/\ BbIdle
     /\ calls = {"fetch_all_templates_cached"}
     /\ assistant_response_content = "could_not_fetch")
        => ENABLED (ShowTemplates /\ assistant_response_content' = "here_are_templates")

NoCredentialReturnsError ==
    (app = "client" /\ bannerbear_api_key = None) =>
        /\ client_return.op # None
              => /\ ~client_return.data
                 /\ client_return.error # None
                 /\ client_return.requests = 0
                 /\ ~client_return.raised
        /\ render_request = NoRequest
        /\ bbPoll.pc # "idle"
              => /\ bbPoll.pc = "returned"
                 /\ bbPoll.url = None
                 /\ bbPoll.error # None
                 /\ bbPoll.queries = 0

\* without a credential, the poller was called and then generate_image
NoCredentialCallsReached ==
    /\ app = "client"
    /\ bannerbear_api_key = None
    /\ bbPoll.pc = "returned"
    /\ client_return.op = "generate_image"
    /\ templates_cache # <<>>

\* the payload fields a modification carries
PayloadFields(mod) == {k \in {"text", "image_url", "color"} : mod[k] # None}

\* the kind of layer a payload field is meant for
KindOfField(k) ==
    IF k = "text" THEN "Text" ELSE IF k = "image_url" THEN "Image" ELSE "Color"

\* C28: while a template is selected in a bbear session, every entry of the
\* Modification Set carries exactly one payload field, and that field is the one
\* of the kind of the template layer the entry names.
ModificationsMatchLayerKinds ==
    (app = "bbear" /\ selected_template_details # NoDetails) =>
        \A i \in 1..Len(current_modifications) :
            LET mod == current_modifications[i]
                layers == AvailableModsForLlm(selected_template_details)
            IN /\ Cardinality(PayloadFields(mod)) = 1
               /\ \E j \in 1..Len(layers) :
                     /\ layers[j].name = mod.name
                     /\ \A k \in PayloadFields(mod) : KindOfField(k) = layers[j].type

\* C34: in every state of a bbear session with no template selected, the
\* Modification Set is empty and no upload is awaited.
NoTemplateMeansNoEdits ==
    (app = "bbear" /\ selected_template_uid = None) =>
        (current_modifications = <<>> /\ image_upload_for_layer = None)

\* C35: in every state of a bbear session with a template selected, every entry
\* of the Modification Set, and the layer an upload is awaited for, if any, is
\* named as a layer of the selected template's available modifications.
StagedLayersAreOfSelectedTemplate ==
    (app = "bbear" /\ selected_template_uid # None) =>
        /\ selected_template_details # NoDetails
        /\ \A i \in 1..Len(current_modifications) :
              current_modifications[i].name \in ActualLayerNames(selected_template_details)
        /\ image_upload_for_layer # None
              => image_upload_for_layer \in ActualLayerNames(selected_template_details)

\* a layer of the selected template is staged and an upload is awaited for
\* another, while a selection that fails can still follow
StagedAndAwaitedAfterReselection ==
    /\ app = "bbear"
    /\ selected_template_uid = "tpl_1"
    /\ Len(current_modifications) = 1
    /\ current_modifications[1].name = "title"
    /\ image_upload_for_layer = "photo"
    /\ templates_cache # <<>>
    /\ ENABLED (SelectTemplateByText /\ assistant_response_content' = "could_not_get_details")

\* C36: every "generate banner" of a bbear session that posts a request leaves a
\* result URL stored exactly when it ended with a completed URL, and no bytes of
\* an earlier image otherwise; and a step that changes the stored URL is such a
\* "generate banner" or clears it, so that a stored URL is always the outcome of
\* the latest render posted since the template was selected.
StoredResultIsOfLatestRender ==
    [][/\ ("generate_image" \in calls' /\ GenerateBanner)
            => /\ final_generated_image_url' # None
                     <=> assistant_response_content'
                            \in {"banner_generated", "generated_not_fetched"}
               /\ final_generated_image_url' = None
                     => final_generated_image_bytes' = None
       /\ (app = "bbear" /\ final_generated_image_url' # final_generated_image_url)
            => \/ "generate_image" \in calls'
               \/ final_generated_image_url' = None /\ final_generated_image_bytes' = None]_vars

\* an image is stored and the next "generate banner" can time out or fail
FailedRenderAfterImageReached ==
    /\ app = "bbear"
    /\ final_generated_image_url # None
    /\ final_generated_image_bytes # None
    /\ ENABLED (GenerateBanner /\ assistant_response_content' = "polling_failed")

\* C30: in a bbear session whose last prompt was "generate with defaults" on a
\* selected template, every "generate banner" posts a render request of that
\* template with no modifications.
DefaultsConfirmedAreRendered ==
    [][(/\ assistant_response_content = "type_generate_banner_to_confirm"
        /\ selected_template_uid # None
        /\ GenerateBanner)
          => /\ "generate_image" \in calls'
             /\ render_request' = RenderRequest(selected_template_uid, <<>>)]_vars

\* C14: every template selection of a bbear session that fails to get the
\* template's details, and reports that, leaves the selected template (uid and
\* details), the Modification Set, the render result and the pending-upload
\* marker as they were.
FailedSelectionKeepsPriorState ==
    [][(SelectsTemplate /\ assistant_response_content' = "could_not_get_details")
          => UNCHANGED <<selected_template_uid, selected_template_details,
                         current_modifications, final_generated_image_url,
                         final_generated_image_bytes, image_upload_for_layer>>]_vars

\* the part of C14 that holds: a failed selection leaves the Modification Set, the
\* render result and the pending-upload marker as they were
FailedSelectionKeepsEdits ==
    [][(SelectsTemplate /\ assistant_response_content' = "could_not_get_details")
          => UNCHANGED <<current_modifications, final_generated_image_url,
                         final_generated_image_bytes, image_upload_for_layer>>]_vars

-----------------------------------------------------------------------------
(* roa_chat session properties *)

\* the arguments of a GENERATE decision
GenerateDecision == [action |-> "GENERATE", template_uid |-> None, modifications |-> <<>>]

\* C11: every run of roa_chat that handles a GENERATE decision while a template is
\* selected and the modification list is empty ends without a call of
\* create_image_async.
RoaEmptyRenderIsRejected ==
    [][(/\ ProcessPrompt
        /\ HandleAiDecision(GenerateDecision)
        /\ design_context.template_uid # None
        /\ design_context.modifications = <<>>)
          => "create_image_async" \notin calls']_vars

\* C13: every MODIFY decision that changes the template of a roa_chat session from
\* one template to another leaves in the Modification Set only the modifications
\* of that decision: none staged for the previous template is carried over.
RoaTemplateChangeResetsModifications ==
    [][\A decision \in Decisions :
          (/\ ProcessPrompt
           /\ HandleAiDecision(decision)
           /\ decision.action = "MODIFY"
           /\ design_context.template_uid # None
           /\ decision.template_uid # None
           /\ decision.template_uid # design_context.template_uid)
             => design_context'.modifications
                   = MergeModifications(<<>>, decision.modifications)]_vars

\* the layer names of a template
TemplateLayerNames(uid) == ActualLayerNames(RemoteTemplateDetails(uid))

\* C16: in a roa_chat session with a template chosen, every entry of the
\* Modification Set names a layer of that template.
RoaStagedLayersAreTemplateLayers ==
    (app = "roa_chat" /\ design_context.template_uid # None) =>
        \A i \in 1..Len(design_context.modifications) :
            design_context.modifications[i].name
                \in TemplateLayerNames(design_context.template_uid)

\* C39: every run of a roa_chat session that calls create_image_async handles a
\* GENERATE decision, or a MODIFY decision naming a template other than the one
\* selected while one is selected; a template is selected when it calls, and the
\* request is for that template.
RenderOnlyOnGenerateOrTemplateChange ==
    [][(app = "roa_chat" /\ "create_image_async" \in calls') =>
          /\ design_context'.template_uid # None
          /\ render_request'.template = design_context'.template_uid
          /\ \A decision \in Decisions :
                HandleAiDecision(decision) =>
                   \/ decision.action = "GENERATE"
                   \/ /\ decision.action = "MODIFY"
                      /\ design_context.template_uid # None
                      /\ decision.template_uid # None
                      /\ decision.template_uid # design_context.template_uid]_vars

\* a session with a template and staged modifications is about to handle a
\* MODIFY that names another template
TemplateChangeAboutToRender ==
    /\ app = "roa_chat"
    /\ design_context.template_uid = "tpl_1"
    /\ design_context.modifications # <<>>
    /\ ENABLED (/\ ProcessPrompt
                /\ HandleAiDecision([action |-> "MODIFY", template_uid |-> "tpl_2",
                                     modifications |-> <<>>])
                /\ "create_image_async" \in calls')

ResetDecision == [action |-> "RESET", template_uid |-> None, modifications |-> <<>>]

\* C27: every run of a roa_chat session that handles a RESET decision, whatever
\* the session held, leaves no template, an empty Modification Set, no staged
\* file and no prompt to process, and calls no render function.
ResetClearsSession ==
    [][(ProcessPrompt /\ HandleAiDecision(ResetDecision))
          => /\ design_context' = EmptyDesignContext
             /\ staged_file_bytes' = None
             /\ processing_prompt' = None
             /\ calls' = {}
             /\ render_request' = NoRequest]_vars

\* a session with a template, staged modifications and a staged file is about to
\* handle a RESET
ResetOfEditedSessionReached ==
    /\ app = "roa_chat"
    /\ design_context.template_uid # None
    /\ Len(design_context.modifications) = 2
    /\ staged_file_bytes # None
    /\ processing_prompt # None
    /\ ENABLED (ProcessPrompt /\ HandleAiDecision(ResetDecision))

\* C31: the run that processes a prompt of a roa_chat session uploads the file the
\* uploader holds when that file has not gone with a prompt yet, and, when it
\* has, neither uploads it nor leaves it staged.
AttachedFileGoesWithOnePrompt ==
    [][(ProcessPrompt /\ uploaded_file)
          => IF file_sent
             THEN /\ StagedAfterRun(staged_file_bytes) = None
                  /\ staged_file_bytes' = None
             ELSE StagedAfterRun(staged_file_bytes) # None]_vars

-----------------------------------------------------------------------------
(* Properties of both sessions *)

\* C20: every "generate banner" of a bbear session and every GENERATE of a roa_chat
\* session, whatever the remote answered, leaves the selected template and the
\* Modification Set as they were, and the request it posts, if it posts one,
\* carries exactly that template and that set: so does the next one.  In a
\* roa_chat session the request posted by any run carries the template and the set
\* the session holds after the run.
RenderKeepsTemplateAndModifications ==
    [][/\ GenerateBanner
            => /\ UNCHANGED <<selected_template_uid, selected_template_details,
                              current_modifications>>
               /\ "generate_image" \in calls'
                     => render_request' = [template |-> selected_template_uid,
                                           modifications |-> current_modifications]
       /\ (ProcessPrompt /\ HandleAiDecision(GenerateDecision))
            => /\ UNCHANGED design_context
               /\ "create_image_async" \in calls'
                     => render_request' = [template |-> design_context.template_uid,
                                           modifications |-> design_context.modifications]
       /\ (ProcessPrompt /\ "create_image_async" \in calls')
            => render_request' = [template |-> design_context'.template_uid,
                                  modifications |-> design_context'.modifications]]_vars

\* a render was posted and its polling failed: the edits are still staged, as
\* they were posted
FailedRenderKeptEdits ==
    /\ app = "bbear"
    /\ assistant_response_content = "polling_failed"
    /\ calls = {"generate_image", "poll_image_completion"}
    /\ selected_template_uid = "tpl_1"
    /\ current_modifications = TitleAndPhotoStaged
    /\ render_request = [template |-> "tpl_1", modifications |-> TitleAndPhotoStaged]
    /\ final_generated_image_url = None

\* how "generate banner" can end
BbRenderEnded ==
    /\ bbPoll.pc = "idle"
    /\ \/ /\ final_generated_image_url # None
          /\ assistant_response_content \in {"banner_generated", "generated_not_fetched"}
       \/ /\ final_generated_image_url = None
          /\ assistant_response_content
                 \in {"request_failed", "no_response", "response_unclear",
                      "polling_failed", "did_not_complete"}

\* how the run of a GENERATE can end
RoaRenderEnded ==
    /\ roaPoll.pc = "idle"
    /\ processing_prompt = None
    /\ roa_response_text
           \in {"ai_text_with_image", "timed_out_or_failed", "could_not_start"}

SessionIsUntouchedDuringPoll ==
    [][/\ (app = "bbear" /\ bbPoll.pc = "polling")
            => /\ UNCHANGED <<selected_template_uid, selected_template_details,
                              current_modifications, image_upload_for_layer,
                              final_generated_image_url, final_generated_image_bytes>>
               /\ bbPoll'.pc \in {"polling", "returned"}
       /\ (app = "roa_chat" /\ roaPoll.pc = "polling")
            => /\ UNCHANGED design_context
               /\ roaPoll'.pc \in {"polling", "returned"}]_vars

-----------------------------------------------------------------------------
(* Poller properties, checked under SpecPoll *)

\* poll_image_completion got past its header check and into the loop
BbLoopEntered == bbPoll.pc # "idle" /\ bbPoll.error # "no_api_key"

\* poll_for_image_completion found a polling URL and got into the loop
RoaLoopEntered == roaPoll.pc # "idle" /\ roaPoll.exit # "no_polling_url"

\* C4: once in its loop (API key set; polling URL present), against a status
\* source that has answered only "pending", neither poller ever issues more than
\* max_attempts queries (max_retries; 30), and when it returns it returns the
\* timed-out failure after exactly max_attempts queries.
PollerTimesOutAfterMaxAttempts ==
    /\ BbLoopEntered =>
          /\ bbPoll.queries <= bbPoll.max_retries
          /\ (bbPoll.only_pending /\ bbPoll.pc = "returned") =>
                /\ bbPoll.error = "timed_out"
                /\ bbPoll.url = None
                /\ bbPoll.queries = bbPoll.max_retries
                /\ bbPoll.answers = bbPoll.max_retries
          /\ (bbPoll.only_pending /\ bbPoll.answers = bbPoll.max_retries) =>
                ~(ENABLED PollImageCompletionStep)
    /\ RoaLoopEntered =>
          /\ roaPoll.queries <= ROA_POLL_ATTEMPTS
          /\ (roaPoll.only_pending /\ roaPoll.pc = "returned") =>
                /\ roaPoll.exit = "exhausted"
                /\ roaPoll.ret = NoData
                /\ roaPoll.queries = ROA_POLL_ATTEMPTS
                /\ roaPoll.answers = ROA_POLL_ATTEMPTS
          /\ (roaPoll.only_pending /\ roaPoll.answers = ROA_POLL_ATTEMPTS) =>
                ~(ENABLED PollForImageCompletionStep)

\* both pollers have run out of attempts against an always-pending source
PollerTimedOutReached ==
    /\ bbPoll.pc = "returned" /\ bbPoll.only_pending /\ bbPoll.error = "timed_out"
    /\ bbPoll.max_retries = MaxRetriesBound /\ bbPoll.queries = MaxRetriesBound
    /\ roaPoll.pc = "returned" /\ roaPoll.only_pending /\ roaPoll.exit = "exhausted"
    /\ roaPoll.queries = ROA_POLL_ATTEMPTS

\* C5: when the latest answer is "completed" with image URL X and every answer
\* before it was "pending" (k of them), the poller has returned success carrying X
\* and has issued exactly k+1 queries.
PollerSuccessAfterPendings ==
    /\ (/\ BbLoopEntered /\ bbPoll.pending_before
        /\ bbPoll.data.status = "completed" /\ bbPoll.data.image_url_png # None) =>
          /\ bbPoll.pc = "returned"
          /\ bbPoll.url = bbPoll.data.image_url_png
          /\ bbPoll.error = None
          /\ bbPoll.nonterminal_answers < bbPoll.max_retries
          /\ bbPoll.queries = bbPoll.nonterminal_answers + 1
    /\ (/\ RoaLoopEntered /\ roaPoll.pending_before
        /\ roaPoll.data.status = "completed" /\ roaPoll.data.image_url_png # None) =>
          /\ roaPoll.pc = "returned"
          /\ roaPoll.exit = "completed"
          /\ roaPoll.ret = roaPoll.data
          /\ roaPoll.nonterminal_answers < ROA_POLL_ATTEMPTS
          /\ roaPoll.queries = roaPoll.nonterminal_answers + 1

\* pending twice, then completed with a URL: success after 3 queries (bbear), and
\* success on the last of the 30 attempts (roa_chat)
PollerSuccessReached ==
    /\ bbPoll.pc = "returned" /\ bbPoll.pending_before /\ bbPoll.url = URL_OUT
    /\ bbPoll.nonterminal_answers = 2 /\ bbPoll.queries = 3
    /\ roaPoll.pc = "returned" /\ roaPoll.pending_before /\ roaPoll.exit = "completed"
    /\ roaPoll.ret.image_url_png = URL_OUT
    /\ roaPoll.queries = ROA_POLL_ATTEMPTS

\* C6: once a status query has answered "failed", the poller has returned a
\* failure: that query was its last, and it has slept only for the earlier queries.
PollerFailsImmediately ==
    /\ (BbLoopEntered /\ bbPoll.data.status = "failed") =>
          /\ bbPoll.pc = "returned"
          /\ bbPoll.error = "failed"
          /\ bbPoll.url = None
          /\ bbPoll.queries = bbPoll.answers
          /\ bbPoll.slept = bbPoll.delay_seconds * (bbPoll.answers - 1)
          /\ ~(ENABLED PollImageCompletionStep)
    /\ (RoaLoopEntered /\ roaPoll.data.status = "failed") =>
          /\ roaPoll.pc = "returned"
          /\ roaPoll.exit = "failed"
          /\ roaPoll.ret = NoData
          /\ roaPoll.queries = roaPoll.answers
          /\ roaPoll.slept = ROA_POLL_DELAY * roaPoll.answers
          /\ ~(ENABLED PollForImageCompletionStep)

\* "failed" on the very first query (bbear) and on a later one (roa_chat)
PollerFailedReached ==
    /\ bbPoll.data.status = "failed" /\ bbPoll.answers = 1 /\ bbPoll.pc = "returned"
    /\ roaPoll.data.status = "failed" /\ roaPoll.answers = 3 /\ roaPoll.pc = "returned"

\* C32: when poll_image_completion has returned the timed-out failure, the seconds
\* it has slept are max_retries * delay_seconds, the seconds its message reports.
TimeoutReportsSecondsSlept ==
    (BbLoopEntered /\ bbPoll.pc = "returned" /\ bbPoll.error = "timed_out") =>
        /\ bbPoll.reported_seconds = bbPoll.max_retries * bbPoll.delay_seconds
        /\ bbPoll.slept = bbPoll.reported_seconds

\* C33: at every point of either poll loop the waits made so far are no more than
\* the queries that answered "pending" or an unrecognized status, so that no wait
\* precedes the first query, and a poller whose first query answered "completed"
\* has returned without having slept.
WaitsFollowNonTerminalAnswers ==
    /\ BbLoopEntered =>
          /\ bbPoll.slept <= bbPoll.delay_seconds * bbPoll.nonterminal_answers
          /\ (bbPoll.answers = 1 /\ bbPoll.data.status = "completed")
                => (bbPoll.pc = "returned" /\ bbPoll.slept = 0)
    /\ RoaLoopEntered =>
          /\ roaPoll.slept <= ROA_POLL_DELAY * roaPoll.nonterminal_answers
          /\ (roaPoll.answers = 1 /\ roaPoll.data.status = "completed")
                => (roaPoll.pc = "returned" /\ roaPoll.slept = 0)

\* C37: whenever poll_image_completion has returned, it has returned either a
\* result URL or an error reason, and not both.
PollReturnsUrlOrError ==
    bbPoll.pc = "returned" => ((bbPoll.url # None) # (bbPoll.error # None))

\* C7: once a status query has raised a transport or HTTP error, the poller has
\* returned a failure: the query is not repeated and no later attempt is made.
PollerStopsOnTransportError ==
    /\ (BbLoopEntered /\ bbPoll.data.kind \in {"HTTPError", "ConnectionError"}) =>
          /\ bbPoll.pc = "returned"
          /\ bbPoll.error \in {"http_error", "connection_error"}
          /\ bbPoll.url = None
          /\ bbPoll.queries = bbPoll.answers
          /\ bbPoll.attempt = bbPoll.answers - 1
          /\ ~(ENABLED PollImageCompletionStep)
    /\ (RoaLoopEntered /\ roaPoll.data.kind \in {"HTTPError", "ConnectionError"}) =>
          /\ roaPoll.pc = "returned"
          /\ roaPoll.exit = "request_exception"
          /\ roaPoll.ret = NoData
          /\ roaPoll.queries = roaPoll.answers
          /\ roaPoll.attempt = roaPoll.answers - 1
          /\ ~(ENABLED PollForImageCompletionStep)

\* an HTTP error with attempts left (bbear) and a connection error on the first
\* query (roa_chat)
PollerTransportErrorReached ==
    /\ bbPoll.data.kind = "HTTPError" /\ bbPoll.pc = "returned"
    /\ bbPoll.answers = 2 /\ bbPoll.max_retries = MaxRetriesBound
    /\ roaPoll.data.kind = "ConnectionError" /\ roaPoll.pc = "returned"
    /\ roaPoll.answers = 1

\* C8: every answer that was neither completed nor failed has been followed by a
\* progress observation: as many observations as such answers, in either poller,
\* and in bbear the latest one is what last_poll_status shows.
PollerEmitsProgress ==
    /\ BbLoopEntered =>
          /\ bbPoll.observed = bbPoll.nonterminal_answers
          /\ IsPending(bbPoll.data) => last_poll_status = PollStatus("pending_attempt", bbPoll.answers, None)
          /\ (IsNonTerminal(bbPoll.data) /\ ~IsPending(bbPoll.data)) =>
                last_poll_status = PollStatus("unexpected_status", 0, bbPoll.data.status)
    /\ RoaLoopEntered => roaPoll.observed = roaPoll.nonterminal_answers

\* the bbear half of C8 alone
BbPollerEmitsProgress ==
    BbLoopEntered =>
        /\ bbPoll.observed = bbPoll.nonterminal_answers
        /\ IsPending(bbPoll.data) => last_poll_status = PollStatus("pending_attempt", bbPoll.answers, None)
        /\ (IsNonTerminal(bbPoll.data) /\ ~IsPending(bbPoll.data)) =>
              last_poll_status = PollStatus("unexpected_status", 0, bbPoll.data.status)

\* C9: at every pass of the loop of poll_image_completion, an unrecognized status
\* in place of "pending" gives the same continuation, the same sleep and the same
\* return value.
UnrecognizedTreatedAsPending ==
    (bbPoll.pc = "polling" /\ PollLoopContinues(bbPoll)) =>
        LET p == PollImageCompletionIteration(bbPoll, Json("pending", None))
            u == PollImageCompletionIteration(bbPoll, Json("queued", None))
        IN /\ p.pc = u.pc
           /\ p.attempt = u.attempt
           /\ p.slept = u.slept
           /\ p.url = u.url
           /\ p.error = u.error

\* the same, except on the last pass of the loop
UnrecognizedTreatedAsPendingBeforeLastPass ==
    (bbPoll.pc = "polling" /\ bbPoll.attempt < bbPoll.max_retries - 1) =>
        LET p == PollImageCompletionIteration(bbPoll, Json("pending", None))
            u == PollImageCompletionIteration(bbPoll, Json("queued", None))
        IN /\ p.pc = u.pc
           /\ p.attempt = u.attempt
           /\ p.slept = u.slept
           /\ p.url = u.url
           /\ p.error = u.error

=============================================================================
